---------------------------- MODULE Spec2Model ----------------------------
(***************************************************************************)
(* Model of the add-contact-note webhook handlers of vns-axc: signature    *)
(* verification, payload extraction, contact resolution, note write and    *)
(* the mapping of outcomes to HTTP status codes.                           *)
(*                                                                         *)
(* Text (a request body, a signing input) is a sequence of symbols.  Each  *)
(* character the scanners inspect on its own (braces, brackets, quotes,    *)
(* backslash, colon, comma, blank) is a symbol; a run of other characters  *)
(* (letters, @, .) is one symbol, a "word".  No word of the model holds a  *)
(* digit, begins with an escape letter (b f n r t u) or is a piece of the  *)
(* text data, so a word is never split by any scanner below.               *)
(***************************************************************************)
EXTENDS Integers, Sequences, FiniteSets, TLC

QT == "\""
BS == "\\"
SQ == "'"
SP == " "

\* /\s/ on the model's alphabet
IsSpace(ch) == ch = SP

(***************************************************************************)
(* extractRawDataSubstring                                                 *)
(***************************************************************************)

\* bodyStr.indexOf('"data"'), 1-based; 0 when absent
IndexOfDataKey(s) ==
  LET hits == {i \in 1..(Len(s) - 2) : s[i] = QT /\ s[i+1] = "data" /\ s[i+2] = QT}
  IN  IF hits = {} THEN 0 ELSE CHOOSE i \in hits : \A k \in hits : i <= k

RECURSIVE SkipToSep(_, _)
\* while (i < length && /\s|:/.test(s[i]) === false) i++
SkipToSep(s, i) ==
  IF i <= Len(s) /\ ~(IsSpace(s[i]) \/ s[i] = ":") THEN SkipToSep(s, i + 1) ELSE i

RECURSIVE SkipSpaces(_, _)
\* while (i < length && /\s/.test(s[i])) i++
SkipSpaces(s, i) ==
  IF i <= Len(s) /\ IsSpace(s[i]) THEN SkipSpaces(s, i + 1) ELSE i

\* A loop that counts every bracket, also those inside string literals
ScanStepNoStrings(st, s, j) ==
  LET ch == s[j]
      d == IF ch = "{" \/ ch = "[" THEN st.depth + 1
           ELSE IF ch = "}" \/ ch = "]" THEN st.depth - 1
           ELSE st.depth
  IN  IF st.end # 0 THEN st ELSE [st EXCEPT !.depth = d, !.end = IF d = 0 THEN j ELSE 0]

\* One iteration of the loop over j.  The scanner's state is depth, inStr,
\* strQuote, esc and end: the index at which the loop returned, 0 while it
\* is running.
ScanStep(st, s, j) ==
  LET ch == s[j] IN
  IF st.end # 0 THEN st
  ELSE IF st.inStr THEN
    IF st.esc THEN [st EXCEPT !.esc = FALSE]
    ELSE IF ch = BS THEN [st EXCEPT !.esc = TRUE]
    ELSE IF ch = st.strQuote THEN [st EXCEPT !.inStr = FALSE, !.strQuote = ""]
    ELSE st
  ELSE IF ch = QT \/ ch = SQ THEN [st EXCEPT !.inStr = TRUE, !.strQuote = ch]
  ELSE LET d == IF ch = "{" \/ ch = "[" THEN st.depth + 1
                ELSE IF ch = "}" \/ ch = "]" THEN st.depth - 1
                ELSE st.depth
       IN  [st EXCEPT !.depth = d, !.end = IF d = 0 THEN j ELSE 0]

RECURSIVE ScanRange(_, _, _, _)
\* the iterations lo..hi in order, by halves
ScanRange(st, s, lo, hi) ==
  IF lo > hi \/ st.end # 0 THEN st
  ELSE IF lo = hi THEN ScanStep(st, s, lo)
  ELSE LET mid == (lo + hi) \div 2
       IN  ScanRange(ScanRange(st, s, lo, mid), s, mid + 1, hi)

\* The loop over j from start: the index of the closing bracket at depth
\* zero, 0 when the text ends first.
DepthScan(s, start) ==
  ScanRange([depth |-> 0, inStr |-> FALSE, strQuote |-> "", esc |-> FALSE, end |-> 0],
            s, start, Len(s)).end

\* Where the raw value of "data" lies in s: [ok, from, to].
RawDataSpan(s) ==
  LET keyIdx == IndexOfDataKey(s)
      i1 == SkipSpaces(s, SkipToSep(s, keyIdx + 3))
      start == SkipSpaces(s, i1 + 1)
      none == [ok |-> FALSE, from |-> 0, to |-> 0]
  IN  IF keyIdx = 0 THEN none
      ELSE IF i1 > Len(s) \/ s[i1] # ":" THEN none
      ELSE IF start > Len(s) \/ s[start] \notin {"{", "["} THEN none
      ELSE LET j == DepthScan(s, start)
           IN  IF j = 0 THEN none ELSE [ok |-> TRUE, from |-> start, to |-> j]

\* null is modelled as the empty text: both are falsy, and the function never
\* returns an empty string.
extractRawDataSubstring(bodyStr) ==
  LET sp == RawDataSpan(bodyStr)
  IN  IF sp.ok THEN SubSeq(bodyStr, sp.from, sp.to) ELSE <<>>

(***************************************************************************)
(* JSON values, JSON.parse and JSON.stringify on the model's alphabet       *)
(*                                                                         *)
(* A value is [t, s, m]: t its type, s the text between the quotes of a    *)
(* string (escape pairs kept as written), m the members [k, v] of an       *)
(* object in insertion order or the elements of an array.                  *)
(***************************************************************************)
Undefined == [t |-> "undef", s |-> <<>>, m |-> <<>>]
JNull     == [t |-> "null",  s |-> <<>>, m |-> <<>>]
JTrue     == [t |-> "true",  s |-> <<>>, m |-> <<>>]
JFalse    == [t |-> "false", s |-> <<>>, m |-> <<>>]
JStr(x)   == [t |-> "str", s |-> x,    m |-> <<>>]
JObj(ms)  == [t |-> "obj", s |-> <<>>, m |-> ms]
JArr(es)  == [t |-> "arr", s |-> <<>>, m |-> es]

\* The words of the model that begin with b, f, n, r or t: after a
\* backslash inside a string their first letter makes a valid escape.
EscapeWords == {"threads", "type", "textBody", "there", "true", "false", "null"}

RECURSIVE StringEnd(_, _)
\* The index of the quote closing the string whose content starts at j; 0
\* when the string is not closed or holds an invalid escape.
StringEnd(s, j) ==
  IF j > Len(s) THEN 0
  ELSE IF s[j] = QT THEN j
  ELSE IF s[j] = BS THEN
         IF j + 1 <= Len(s) /\ (s[j+1] \in {QT, BS} \/ s[j+1] \in EscapeWords)
         THEN StringEnd(s, j + 2) ELSE 0
  ELSE StringEnd(s, j + 1)

Fail == [ok |-> FALSE, val |-> Undefined, pos |-> 0]

\* An object member set by key: a repeated key keeps its first position and
\* takes the later value.
PutMember(ms, k, v) ==
  IF \E n \in 1..Len(ms) : ms[n].k = k
  THEN [n \in 1..Len(ms) |-> IF ms[n].k = k THEN [k |-> k, v |-> v] ELSE ms[n]]
  ELSE Append(ms, [k |-> k, v |-> v])

RECURSIVE ParseValue(_, _)
RECURSIVE ParseMembers(_, _, _)
RECURSIVE ParseElements(_, _, _)

\* One JSON value starting at or after i (blanks skipped): [ok, val, pos],
\* pos the index after the value.
ParseValue(s, i0) ==
  LET i == SkipSpaces(s, i0) IN
  IF i > Len(s) THEN Fail
  ELSE IF s[i] = "{" THEN
    LET j == SkipSpaces(s, i + 1) IN
    IF j <= Len(s) /\ s[j] = "}" THEN [ok |-> TRUE, val |-> JObj(<<>>), pos |-> j + 1]
    ELSE ParseMembers(s, j, <<>>)
  ELSE IF s[i] = "[" THEN
    LET j == SkipSpaces(s, i + 1) IN
    IF j <= Len(s) /\ s[j] = "]" THEN [ok |-> TRUE, val |-> JArr(<<>>), pos |-> j + 1]
    ELSE ParseElements(s, j, <<>>)
  ELSE IF s[i] = QT THEN
    LET e == StringEnd(s, i + 1) IN
    IF e = 0 THEN Fail
    ELSE [ok |-> TRUE, val |-> JStr(SubSeq(s, i + 1, e - 1)), pos |-> e + 1]
  ELSE IF s[i] = "null" THEN [ok |-> TRUE, val |-> JNull, pos |-> i + 1]
  ELSE IF s[i] = "true" THEN [ok |-> TRUE, val |-> JTrue, pos |-> i + 1]
  ELSE IF s[i] = "false" THEN [ok |-> TRUE, val |-> JFalse, pos |-> i + 1]
  ELSE Fail

\* The members of an object from i (a key is expected there) to its brace.
ParseMembers(s, i0, acc) ==
  LET i == SkipSpaces(s, i0) IN
  IF i > Len(s) \/ s[i] # QT THEN Fail
  ELSE LET e == StringEnd(s, i + 1) IN
    IF e = 0 THEN Fail
    ELSE LET c == SkipSpaces(s, e + 1) IN
      IF c > Len(s) \/ s[c] # ":" THEN Fail
      ELSE LET r == ParseValue(s, c + 1) IN
        IF ~r.ok THEN Fail
        ELSE LET n == SkipSpaces(s, r.pos)
                 ms == PutMember(acc, SubSeq(s, i + 1, e - 1), r.val)
             IN  IF n > Len(s) THEN Fail
                 ELSE IF s[n] = "}" THEN [ok |-> TRUE, val |-> JObj(ms), pos |-> n + 1]
                 ELSE IF s[n] = "," THEN ParseMembers(s, n + 1, ms)
                 ELSE Fail

\* The elements of an array from i to its bracket.
ParseElements(s, i0, acc) ==
  LET r == ParseValue(s, i0) IN
  IF ~r.ok THEN Fail
  ELSE LET n == SkipSpaces(s, r.pos)
           es == Append(acc, r.val)
       IN  IF n > Len(s) THEN Fail
           ELSE IF s[n] = "]" THEN [ok |-> TRUE, val |-> JArr(es), pos |-> n + 1]
           ELSE IF s[n] = "," THEN ParseElements(s, n + 1, es)
           ELSE Fail

\* JSON.parse(text): [ok, val]; ok is FALSE where JSON.parse throws.
JSONparse(text) ==
  LET r == ParseValue(text, 1) IN
  IF r.ok /\ SkipSpaces(text, r.pos) > Len(text)
  THEN [ok |-> TRUE, val |-> r.val]
  ELSE [ok |-> FALSE, val |-> Undefined]

RECURSIVE JSONstringify(_)
RECURSIVE JoinMembers(_, _)
RECURSIVE JoinElements(_, _)

JoinMembers(ms, n) ==
  IF n > Len(ms) THEN <<>>
  ELSE (IF n > 1 THEN <<",">> ELSE <<>>)
       \o <<QT>> \o ms[n].k \o <<QT, ":">> \o JSONstringify(ms[n].v)
       \o JoinMembers(ms, n + 1)

JoinElements(es, n) ==
  IF n > Len(es) THEN <<>>
  ELSE (IF n > 1 THEN <<",">> ELSE <<>>) \o JSONstringify(es[n]) \o JoinElements(es, n + 1)

\* JSON.stringify(value): no blanks, members in insertion order.
JSONstringify(v) ==
  IF v.t = "obj" THEN <<"{">> \o JoinMembers(v.m, 1) \o <<"}">>
  ELSE IF v.t = "arr" THEN <<"[">> \o JoinElements(v.m, 1) \o <<"]">>
  ELSE IF v.t = "str" THEN <<QT>> \o v.s \o <<QT>>
  ELSE <<v.t>>

\* JavaScript truthiness of a parsed value
Truthy(v) ==
  IF v.t \in {"obj", "arr", "true"} THEN TRUE
  ELSE IF v.t = "str" THEN v.s # <<>>
  ELSE FALSE

\* v?.key : the property of an object, undefined for everything else
Prop(v, key) ==
  IF v.t = "obj" /\ \E n \in 1..Len(v.m) : v.m[n].k = <<key>>
  THEN LET n == CHOOSE n \in 1..Len(v.m) : v.m[n].k = <<key>> IN v.m[n].v
  ELSE Undefined

\* a || b
Or(a, b) == IF Truthy(a) THEN a ELSE b

(***************************************************************************)
(* JavaScript strings on the model's alphabet                              *)
(***************************************************************************)
\* String.prototype.toLowerCase, word by word
LowerWord(w) ==
  CASE w = "Email" -> "email"
    [] w = "Outbound" -> "outbound"
    [] w = "Agent" -> "agent"
    [] w = "A@X.COM" -> "a@x.com"
    [] OTHER -> w

toLowerCase(str) == [n \in 1..Len(str) |-> LowerWord(str[n])]

\* encodeURIComponent, word by word
EncodeWord(w) ==
  CASE w = "a@x.com" -> "a%40x.com"
    [] w = "A@X.COM" -> "A%40X.COM"
    [] w = "b@x.com" -> "b%40x.com"
    [] w = SP -> "%20"
    [] OTHER -> w

encodeURIComponent(str) == [n \in 1..Len(str) |-> EncodeWord(str[n])]

RECURSIVE StringOf(_)
RECURSIVE JoinStrings(_, _)

\* Array.prototype.join(","): null and undefined elements give ""
JoinStrings(es, n) ==
  IF n > Len(es) THEN <<>>
  ELSE (IF n > 1 THEN <<",">> ELSE <<>>)
       \o (IF es[n].t \in {"null", "undef"} THEN <<>> ELSE StringOf(es[n]))
       \o JoinStrings(es, n + 1)

\* String(v), `${v}`
StringOf(v) ==
  IF v.t = "str" THEN v.s
  ELSE IF v.t = "obj" THEN <<"[object Object]">>
  ELSE IF v.t = "arr" THEN JoinStrings(v.m, 1)
  ELSE IF v.t = "undef" THEN <<"undefined">>
  ELSE <<v.t>>

(***************************************************************************)
(* Payload extraction (part_001, part_002)                                 *)
(***************************************************************************)
\* A pickCustomerEmail that falls back to the inbox's connected address, as
\* part_000 does
pickCustomerEmailOrInbox(data) ==
  Or(Prop(Prop(data, "contactInfo"), "email"),
  Or(Prop(Prop(data, "contact"), "email"),
  Or(Prop(Prop(data, "customer"), "email"),
  Or(Prop(Prop(Prop(data, "conversation"), "contact"), "email"),
  Or(Prop(Prop(data, "inbox"), "connectedEmailAddress"),
     JNull)))))

pickCustomerEmail(data) ==
  Or(Prop(Prop(data, "contactInfo"), "email"),
  Or(Prop(Prop(data, "contact"), "email"),
  Or(Prop(Prop(data, "customer"), "email"),
  Or(Prop(Prop(Prop(data, "conversation"), "contact"), "email"),
     JNull))))

\* the threads array searched for the outbound email
ThreadsOf(data) ==
  IF Prop(data, "threads").t = "arr" THEN Prop(data, "threads").m
  ELSE IF Prop(Prop(data, "conversation"), "threads").t = "arr"
       THEN Prop(Prop(data, "conversation"), "threads").m
  ELSE <<>>

IsOutboundEmail(t) ==
  /\ toLowerCase(StringOf(Prop(t, "type"))) = <<"email">>
  /\ toLowerCase(StringOf(Prop(t, "direction"))) = <<"outbound">>

\* the last thread of type email and direction outbound; null when none
lastOutboundEmailThread(data) ==
  LET threads == ThreadsOf(data)
      hits == {n \in 1..Len(threads) : IsOutboundEmail(threads[n])}
  IN  IF hits = {} THEN JNull
      ELSE threads[CHOOSE n \in hits : \A k \in hits : k <= n]

\* The markup symbols of the model: a tag or an entity is one symbol.
Tags == {"<b>", "</b>", "<p>", "<div>", "</div>"}

RECURSIVE DropBlocks(_, _)
\* .replace(/<style[\s\S]*?<\/style>|<script[\s\S]*?<\/script>/gi, "")
DropBlocks(h, n) ==
  IF n > Len(h) THEN <<>>
  ELSE IF h[n] \in {"<style>", "<script>"} THEN
    LET close == IF h[n] = "<style>" THEN "</style>" ELSE "</script>"
        ends == {k \in (n + 1)..Len(h) : h[k] = close}
    IN  IF ends = {} THEN <<h[n]>> \o DropBlocks(h, n + 1)
        ELSE DropBlocks(h, (CHOOSE k \in ends : \A x \in ends : k <= x) + 1)
  ELSE <<h[n]>> \o DropBlocks(h, n + 1)

RECURSIVE MapMarkup(_, _)
\* <br> to a line break, </p> to two, any other tag to nothing, then the
\* four entities
MapMarkup(h, n) ==
  IF n > Len(h) THEN <<>>
  ELSE (CASE h[n] \in {"<br>", "<br/>"} -> <<"\n">>
          [] h[n] = "</p>" -> <<"\n", "\n">>
          [] h[n] \in Tags \cup {"<style>", "</style>", "<script>", "</script>"} -> <<>>
          [] h[n] = "&nbsp;" -> <<SP>>
          [] h[n] = "&amp;" -> <<"&">>
          [] h[n] = "&lt;" -> <<"<">>
          [] h[n] = "&gt;" -> <<">">>
          [] OTHER -> <<h[n]>>) \o MapMarkup(h, n + 1)

htmlToText(html) == MapMarkup(DropBlocks(html, 1), 1)

RECURSIVE StringThrows(_)
\* String(v), a template literal or join applied to v throws a TypeError
\* when v is an object with a member of its own named toString: a parsed
\* JSON value is never callable and the inherited valueOf returns the
\* object itself
StringThrows(v) ==
  \/ v.t = "obj" /\ Prop(v, "toString").t # "undef"
  \/ v.t = "arr" /\ \E n \in 1..Len(v.m) : StringThrows(v.m[n])

\* part_001 lines 132-146 and 249-277: the conversions to a string made
\* while the thread, the subject and the body are extracted and the note is
\* put together, any of which may throw
Extract1Throws(data, customerEmail) ==
  LET threads == ThreadsOf(data)
      hits == {n \in 1..Len(threads) : IsOutboundEmail(threads[n])}
      last == IF hits = {} THEN 0 ELSE CHOOSE n \in hits : \A k \in hits : k <= n
      outbound == lastOutboundEmailThread(data)
      subject == Or(Prop(outbound, "subject"), Or(Prop(data, "subject"),
                 Prop(Prop(data, "conversation"), "subject")))
      html == Or(Prop(outbound, "htmlBody"), Or(Prop(Prop(data, "message"), "htmlBody"),
              Prop(Prop(data, "message"), "body")))
      inboxName == Prop(Prop(data, "inbox"), "name")
      inboxAddr == Prop(Prop(data, "inbox"), "connectedEmailAddress")
      convId == Or(Prop(Prop(data, "conversation"), "id"),
                Or(Prop(data, "ticketId"), Prop(data, "id")))
  IN  \/ \E n \in (last + 1)..Len(threads) :
           \/ StringThrows(Prop(threads[n], "type"))
           \/ /\ toLowerCase(StringOf(Prop(threads[n], "type"))) = <<"email">>
              /\ StringThrows(Prop(threads[n], "direction"))
      \/ IF Truthy(Prop(outbound, "textBody"))
           THEN StringThrows(Prop(outbound, "textBody"))
           ELSE Truthy(html) /\ StringThrows(html)
      \/ StringThrows(customerEmail)
      \/ Truthy(subject) /\ StringThrows(subject)
      \/ Truthy(inboxName) /\ StringThrows(inboxName)
      \/ Truthy(inboxAddr) /\ StringThrows(inboxAddr)
      \/ Truthy(convId) /\ StringThrows(convId)

\* the longest note kept: 60000 characters in the source (slice(0, 60000)),
\* scaled here to a number of symbols that a request body can exceed
NoteMax == 32

Slice(str, n) == SubSeq(str, 1, IF Len(str) < n THEN Len(str) ELSE n)

RECURSIVE JoinLines(_, _)
\* lines.filter(Boolean).join("\n"): empty and null lines are dropped
JoinLines(lines, first) ==
  IF lines = <<>> THEN <<>>
  ELSE IF Head(lines) = <<>> THEN JoinLines(Tail(lines), first)
  ELSE (IF first THEN <<>> ELSE <<"\n">>) \o Head(lines) \o JoinLines(Tail(lines), FALSE)

\* part_001 lines 249-277: the note built from the last outbound email
ComposeNote1(data, customerEmail) ==
  LET outbound == lastOutboundEmailThread(data)
      subject == Or(Prop(outbound, "subject"), Or(Prop(data, "subject"),
                 Or(Prop(Prop(data, "conversation"), "subject"),
                    JStr(<<"(no subject)">>))))
      html == Or(Prop(outbound, "htmlBody"), Or(Prop(Prop(data, "message"), "htmlBody"),
              Or(Prop(Prop(data, "message"), "body"), JStr(<<>>))))
      plain == Or(Prop(outbound, "textBody"), JStr(htmlToText(StringOf(html))))
      inboxName == Or(Prop(Prop(data, "inbox"), "name"), JStr(<<>>))
      inboxAddr == Or(Prop(Prop(data, "inbox"), "connectedEmailAddress"), JStr(<<>>))
      convId == Or(Prop(Prop(data, "conversation"), "id"),
                Or(Prop(data, "ticketId"), Prop(data, "id")))
      lines == << <<"Email sent via ThriveDesk">>,
                  <<"To: ">> \o StringOf(customerEmail),
                  <<"Subject: ">> \o StringOf(subject),
                  IF Truthy(inboxName) \/ Truthy(inboxAddr)
                    THEN <<"From: ">> \o StringOf(inboxName)
                         \o (IF Truthy(inboxAddr)
                             THEN <<" <">> \o StringOf(inboxAddr) \o <<">">> ELSE <<>>)
                    ELSE <<>>,
                  IF Truthy(convId) THEN <<"Conversation ID: ">> \o StringOf(convId) ELSE <<>>,
                  <<>>,
                  IF Truthy(plain) THEN StringOf(plain) ELSE <<"(no body)">> >>
  IN  Slice(JoinLines(lines, TRUE), NoteMax)

\* part_002 line 289: connectedAddr is declared nowhere, so reading it
\* throws a ReferenceError on every composition
Compose2Throws == TRUE

(***************************************************************************)
(* State                                                                   *)
(***************************************************************************)
VARIABLES
  env,       \* process.env as read by the module: TD_WEBHOOK_SECRET,
             \* ALLOW_UNVERIFIED, and whether the three AXC_* values are set
  event,     \* the request: httpMethod, headers, body
  verifier,  \* the verifier under test (specification SigSpec)
  spc,       \* SigSpec: "fresh", "verified", "tampered", "reverified"
  verdict,   \* SigSpec: the verifier's last answer
  orig,      \* SigSpec: the request and verdict before the body was altered
  variant,   \* which handler file serves the request
  hpc,       \* the handler's position: "start", "lookup", "write", "done", "crashed"
  did,       \* the stages the invocation has performed, in order
  customerEmail, \* the extracted recipient
  note,      \* the composed note
  stage,     \* the number of the next directory query
  tried,     \* the directory URLs requested so far
  contact,   \* the resolved contact
  writes,    \* the note-write calls issued
  lastFetch, \* part_000: url and status of the last directory query
  answers,   \* the answers of the remote system received so far
  res,       \* part_002: the response findContactByEmail is looking at
  offset,    \* part_002: the offset of the page pagedExact asks for next
  response,  \* the handler's answer
  other      \* PairSpec: the second invocation of the same instance, while the
             \* first one runs (the two are exchanged at every switch)

(***************************************************************************)
(* Header values and HMAC                                                  *)
(*                                                                         *)
(* A header value or a digest is a sequence of atoms [kind, key, msg]: a   *)
(* literal run of characters (kind "lit", the characters in key) or the    *)
(* digest of msg under key in base64 or hex.  Two digests are equal only   *)
(* when encoding, key and message are: HMAC as an injective keyed          *)
(* function.  A digest holds no blank and does not start with sha1=.       *)
(***************************************************************************)
Lit(x) == [kind |-> "lit", key |-> x, msg |-> <<>>]

hmacBase64(secret, content) == <<[kind |-> "b64", key |-> secret, msg |-> content]>>

hmacHex(secret, content) == <<[kind |-> "hex", key |-> secret, msg |-> content]>>

\* The casings of the signature header's name a request may carry
HeaderNames == {"x-td-signature", "X-TD-Signature", "X-TD-SIGNATURE", "X-Td-Signature"}

\* event.headers[name]: undefined and "" are both the empty value
Header(evt, name) == IF evt.headers.name = name THEN evt.headers.value ELSE <<>>

\* headerRaw.replace(/^sha1=/i, "")
StripSha1(h) ==
  IF Len(h) > 0 /\ h[1] \in {Lit("sha1="), Lit("SHA1=")} THEN Tail(h) ELSE h

RECURSIVE Trim(_)
\* String.prototype.trim
Trim(h) ==
  IF Len(h) = 0 THEN h
  ELSE IF h[1] = Lit(" ") THEN Trim(Tail(h))
  ELSE IF h[Len(h)] = Lit(" ") THEN Trim(SubSeq(h, 1, Len(h) - 1))
  ELSE h

\* sigHeader.includes(c)
Includes(h, c) ==
  \E k \in 0..(Len(h) - Len(c)) : SubSeq(h, k + 1, k + Len(c)) = c

(***************************************************************************)
(* verifyTdSignature (part_001, part_002)                                  *)
(***************************************************************************)
\* const header = headerRaw.replace(/^sha1=/i, "").trim()
TdHeader(evt) ==
  Trim(StripSha1(IF Header(evt, "x-td-signature") # <<>>
                 THEN Header(evt, "x-td-signature")
                 ELSE Header(evt, "X-TD-Signature")))

\* candidate 1: the HMAC of the raw "data" substring; <<>> is null
TdC1(secret, bodyStr) ==
  LET rawData == extractRawDataSubstring(bodyStr)
  IN  IF rawData # <<>> THEN hmacBase64(secret, rawData) ELSE <<>>

\* candidate 2: the HMAC of JSON.stringify(payload.data); <<>> is null
TdC2(secret, bodyStr) ==
  LET payload == JSONparse(bodyStr)
  IN  IF payload.ok /\ Truthy(payload.val) /\ Truthy(Prop(payload.val, "data"))
      THEN hmacBase64(secret, JSONstringify(Prop(payload.val, "data")))
      ELSE <<>>

\* candidate 3: the HMAC of the full raw body
TdC3(secret, bodyStr) == hmacBase64(secret, bodyStr)

\* A verifier that compares the JSON.stringify and full-body candidates only
TdSomeNoRaw(secret, bodyStr, header) ==
  \E sig \in {TdC2(secret, bodyStr), TdC3(secret, bodyStr)} :
     sig # <<>> /\ sig = header

\* A verifier whose callback is sig => sig || sig === header
TdSomeAnyCandidate(secret, bodyStr, header) ==
  \E sig \in {TdC1(secret, bodyStr), TdC2(secret, bodyStr), TdC3(secret, bodyStr)} :
     sig # <<>> \/ sig = header

\* [c1, c2, c3].some(sig => sig && sig === header)
TdSome(secret, bodyStr, header) ==
  \E sig \in {TdC1(secret, bodyStr), TdC2(secret, bodyStr), TdC3(secret, bodyStr)} :
     sig # <<>> /\ sig = header

verifyTdSignature(evt) ==
  IF env.TD_WEBHOOK_SECRET = "" THEN TRUE
  ELSE IF env.ALLOW_UNVERIFIED THEN TRUE
  ELSE LET header == TdHeader(evt)
       IN  IF header = <<>> THEN FALSE
           ELSE TdSome(env.TD_WEBHOOK_SECRET, evt.body, header)

(***************************************************************************)
(* hmacOk (part_003)                                                       *)
(***************************************************************************)
HmacOkCandidates(secret, raw) ==
  { hmacHex(secret, raw), <<Lit("sha1=")>> \o hmacHex(secret, raw),
    hmacBase64(secret, raw), <<Lit("sha1=")>> \o hmacBase64(secret, raw) }

hmacOk(secret, raw, sigHeader) ==
  IF secret = "" THEN TRUE
  ELSE IF sigHeader = <<>> \/ raw = <<>> THEN FALSE
  ELSE \/ \E cand \in HmacOkCandidates(secret, raw) : cand = sigHeader
       \/ \E c \in HmacOkCandidates(secret, raw) : Includes(sigHeader, c)

\* const sig = event.headers["x-td-signature"] || event.headers["X-TD-Signature"]
HmacOkHeader(evt) ==
  IF Header(evt, "x-td-signature") # <<>>
  THEN Header(evt, "x-td-signature") ELSE Header(evt, "X-TD-Signature")

(***************************************************************************)
(* hmacValid and reqHeader (part_000)                                      *)
(***************************************************************************)
\* evt.headers[name] || evt.headers[name.toLowerCase()] || evt.headers[name.toUpperCase()]
reqHeader(evt) ==
  IF Header(evt, "x-td-signature") # <<>>
  THEN Header(evt, "x-td-signature") ELSE Header(evt, "X-TD-SIGNATURE")

hmacValid(dataObj, signature, secret) ==
  IF signature = <<>> \/ secret = "" THEN FALSE
  ELSE signature = hmacBase64(secret, JSONstringify(dataObj))

(***************************************************************************)
(* verifyThriveDeskSignature (part_004)                                    *)
(***************************************************************************)
\* raw.match(/"data"\s*:\s*(\{[\s\S]*\})\s*}$/): [ok, from, to] of group 1.
\* The text must end in } with a } before it (blanks between); the group
\* runs from the { after the leftmost fitting "data" key to that }.
DataRegexMatch(raw) ==
  LET n == Len(raw)
      none == [ok |-> FALSE, from |-> 0, to |-> 0]
      closers == {e \in 1..(n - 1) : raw[e] = "}" /\ \A k \in (e + 1)..(n - 1) : IsSpace(raw[k])}
      e == IF closers = {} THEN 0 ELSE CHOOSE x \in closers : TRUE
      brace(p) == SkipSpaces(raw, SkipSpaces(raw, p + 3) + 1)
      fits == {p \in 1..(n - 2) :
                 /\ raw[p] = QT /\ raw[p+1] = "data" /\ raw[p+2] = QT
                 /\ SkipSpaces(raw, p + 3) <= n /\ raw[SkipSpaces(raw, p + 3)] = ":"
                 /\ brace(p) < e /\ raw[brace(p)] = "{"}
  IN  IF n = 0 \/ raw[n] # "}" \/ closers = {} \/ fits = {} THEN none
      ELSE LET p == CHOOSE x \in fits : \A y \in fits : x <= y
           IN  [ok |-> TRUE, from |-> brace(p), to |-> e]

\* Object.fromEntries(... k.toLowerCase() ...)["x-td-signature"] || ""
LowerCasedHeader(evt) ==
  IF evt.headers.name \in HeaderNames THEN evt.headers.value ELSE <<>>

verifyThriveDeskSignature(evt, secret) ==
  LET sent == LowerCasedHeader(evt)
      raw == evt.body
      parsed == JSONparse(raw)
      m == DataRegexMatch(raw)
      dataObj == IF parsed.ok THEN Prop(parsed.val, "data") ELSE Undefined
  IN  IF secret = "" \/ sent = <<>> THEN [ok |-> FALSE, mode |-> "missing secret or signature"]
      ELSE IF m.ok /\ hmacBase64(secret, SubSeq(raw, m.from, m.to)) = sent
        THEN [ok |-> TRUE, mode |-> "raw-substring"]
      ELSE IF Truthy(dataObj) /\ hmacBase64(secret, JSONstringify(dataObj)) = sent
        THEN [ok |-> TRUE, mode |-> "json-stringify"]
      ELSE [ok |-> FALSE, mode |-> "signature mismatch"]

sigvars == <<verifier, spc, verdict, orig>>

hvars ==
  <<variant, hpc, did, customerEmail, note, stage, tried, contact, writes, lastFetch,
    answers, res, offset, response, other>>

vars == <<env, event, sigvars, hvars>>

(***************************************************************************)
(* Inputs                                                                  *)
(***************************************************************************)
Q(w) == <<QT, w, QT>>

\* {"data":{"k":"v"}}
SB1 == <<"{">> \o Q("data") \o <<":", "{">> \o Q("k") \o <<":">> \o Q("v") \o <<"}", "}">>
\* {"data": {"k": "v"} }
SB2 == <<"{">> \o Q("data") \o <<":", SP, "{">> \o Q("k") \o <<":", SP>> \o Q("v") \o <<"}", SP, "}">>
\* {"data":{"k":"v"},"data":{"k":"v"}}
SB3 == <<"{">> \o Q("data") \o <<":", "{">> \o Q("k") \o <<":">> \o Q("v") \o <<"}", ",">>
       \o Q("data") \o <<":", "{">> \o Q("k") \o <<":">> \o Q("v") \o <<"}", "}">>
\* {"k":"v"}
SB4 == <<"{">> \o Q("k") \o <<":">> \o Q("v") \o <<"}">>
\* {"data":{"k":"v","k":"x"}}
SB5 == <<"{">> \o Q("data") \o <<":", "{">> \o Q("k") \o <<":">> \o Q("v") \o <<",">>
       \o Q("k") \o <<":">> \o Q("x") \o <<"}", "}">>
\* {"data":"v"}
SB6 == <<"{">> \o Q("data") \o <<":">> \o Q("v") \o <<"}">>
\* {"data":{"k":"v"}   (not closed)
SB7 == <<"{">> \o Q("data") \o <<":", "{">> \o Q("k") \o <<":">> \o Q("v") \o <<"}">>

\* {"data":{"k":"v"},"data":{"k":"x"}}: the key twice, with different values
SB8 == <<"{">> \o Q("data") \o <<":", "{">> \o Q("k") \o <<":">> \o Q("v") \o <<"}", ",">>
       \o Q("data") \o <<":", "{">> \o Q("k") \o <<":">> \o Q("x") \o <<"}", "}">>
\* {"x":{"data":{"k":"x"}},"data":{"k":"v"}}: the key nested, before the top-level one
SB9 == <<"{">> \o Q("x") \o <<":", "{">> \o Q("data") \o <<":", "{">> \o Q("k") \o <<":">>
       \o Q("x") \o <<"}", "}", ",">>
       \o Q("data") \o <<":", "{">> \o Q("k") \o <<":">> \o Q("v") \o <<"}", "}">>

SigBodies == {SB1, SB2, SB3, SB4, SB5, SB6, SB7, SB8, SB9, <<>>}

\* The symbols a body symbol may be replaced by
TamperSymbols == {"{", "}", "[", "]", ":", ",", QT, BS, SQ, SP, "x", "data"}

\* the configured secret and a key the sender may have used instead
Keys == {"k1", "k2"}

\* The texts a sender may have signed for body b
SignedTexts(b) ==
  LET p == JSONparse(b)
      d == IF p.ok THEN Prop(p.val, "data") ELSE Undefined
  IN  ({extractRawDataSubstring(b), b}
       \cup (IF Truthy(d) THEN {JSONstringify(d)} ELSE {})) \ {<<>>}

\* The signature header values a request with body b may carry
HeaderValues(b) ==
  {<<Lit("junk")>>}
  \cup {hmacBase64(k, t) : k \in Keys, t \in SignedTexts(b)}
  \cup {<<Lit("sha1=")>> \o hmacBase64("k1", t) : t \in SignedTexts(b)}
  \cup {<<Lit("SHA1=")>> \o hmacBase64("k1", t) \o <<Lit(" ")>> : t \in SignedTexts(b)}
  \cup {<<Lit(" "), Lit("sha1=")>> \o hmacBase64("k1", t) : t \in SignedTexts(b)}
  \cup {hmacHex("k1", b), <<Lit("sha1=")>> \o hmacHex("k1", b)}
  \cup {<<Lit("x")>> \o hmacBase64("k1", b) \o <<Lit("x")>>}

HeadersFor(b) ==
  {[name |-> "none", value |-> <<>>]}
  \cup {[name |-> n, value |-> v] : n \in HeaderNames, v \in HeaderValues(b)}

Envs ==
  [TD_WEBHOOK_SECRET : {"", "k1"}, ALLOW_UNVERIFIED : BOOLEAN, AXC_CONFIGURED : BOOLEAN]

(***************************************************************************)
(* The remote directory                                                    *)
(***************************************************************************)
NoContact ==
  [CONTACTID |-> 0, EMAILADDRESS |-> "", EMAILADDRESSALTERNATIVE |-> "",
   CUSTOMFIELD_PERSONALEMAIL |-> ""]

Rec(id, e) == [NoContact EXCEPT !.CONTACTID = id, !.EMAILADDRESS = e]

\* records the directory may return: exact on the primary address, exact up
\* to case, exact on the alternative address, another address, no CONTACTID
RExact  == Rec(11, "a@x.com")
RUpper  == Rec(12, "A@X.COM")
RAlt    == [NoContact EXCEPT !.CONTACTID = 13, !.EMAILADDRESS = "b@x.com",
                             !.EMAILADDRESSALTERNATIVE = "a@x.com"]
ROther  == Rec(14, "b@x.com")
RNoId   == Rec(0, "a@x.com")

\* An answer of a directory GET: a response (status, JSON body) or a
\* transport failure (fetch rejects).  body.t: "array", "object", "null"
\* (empty text) or "text" (not JSON).
Answer(status, t, recs) == [kind |-> "resp", status |-> status, t |-> t, recs |-> recs]

FetchThrows == [kind |-> "throw", status |-> 0, t |-> "null", recs |-> <<>>]

\* no response has been received
NoAnswer == [kind |-> "none", status |-> 0, t |-> "null", recs |-> <<>>]

\* the remote system never answers and the connection stays open
NeverCompletes == [kind |-> "never", status |-> 0, t |-> "null", recs |-> <<>>]

DirAnswers ==
  { Answer(200, "array", <<>>), Answer(200, "array", <<RExact>>),
    Answer(200, "array", <<ROther>>), Answer(200, "array", <<ROther, RUpper>>),
    Answer(200, "array", <<RUpper, ROther>>),
    Answer(200, "array", <<ROther, RUpper, RExact>>),
    Answer(200, "array", <<RNoId>>), Answer(200, "object", <<RAlt>>),
    Answer(500, "text", <<>>), FetchThrows, NeverCompletes }

\* an answer of the note-write endpoint
WriteAnswers ==
  { Answer(200, "object", <<>>), Answer(400, "text", <<>>), Answer(500, "text", <<>>),
    FetchThrows, NeverCompletes }

\* res.ok
ResOk(a) == a.status >= 200 /\ a.status <= 299

(***************************************************************************)
(* Contact resolution (part_001)                                           *)
(***************************************************************************)
isExactEmail(rec, targetLower) ==
  \/ rec.EMAILADDRESS # "" /\ <<LowerWord(rec.EMAILADDRESS)>> = targetLower
  \/ rec.EMAILADDRESSALTERNATIVE # ""
       /\ <<LowerWord(rec.EMAILADDRESSALTERNATIVE)>> = targetLower
  \/ rec.CUSTOMFIELD_PERSONALEMAIL # ""
       /\ <<LowerWord(rec.CUSTOMFIELD_PERSONALEMAIL)>> = targetLower

\* A find that returns the last of the elements that pass
LastOf(hits) ==
  IF hits = {} THEN 0 ELSE CHOOSE n \in hits : \A k \in hits : k <= n

\* A find that returns the head of the list when anything in it passes
FirstAny(hits) == IF hits = {} THEN 0 ELSE 1

\* arr.find: the first of the indices that satisfy the test, 0 if none
FirstOf(hits) ==
  IF hits = {} THEN 0 ELSE CHOOSE n \in hits : \A k \in hits : n <= k

\* arr.find(c => isExactEmail(c, lower)); NoContact is undefined
FindExact(arr, lower) ==
  LET n == FirstOf({x \in 1..Len(arr) : isExactEmail(arr[x], lower)})
  IN  IF n = 0 THEN NoContact ELSE arr[n]

Url(path, param, value, extra) ==
  [path |-> path, param |-> param, value |-> value, extra |-> extra]

\* A list of tried URLs that records the first request only
PushFirstOnly(list, url) == IF list = <<>> THEN Append(list, url) ELSE list

\* tried.push(r.url) after an answered request (part_001 lines 176, 185,
\* 194; part_002 lines 136, 150, 172)
Push(list, url) == Append(list, url)

\* the URL of the n-th query of findContactByEmail (part_001)
Url1(n, email) ==
  LET e == encodeURIComponent(email) IN
  CASE n = 1 -> Url("/api/contacts", "emailAddress", e, "")
    [] n = 2 -> Url("/api/contacts/search", "emailAddress", e, "displayLength=50")
    [] OTHER -> Url("/api/contacts/search", "search", e, "displayLength=50")

\* What the n-th stage of findContactByEmail (part_001) makes of answer a:
\* the contact it returns, NoContact when it goes on to the next stage.
StageContact1(n, a, lower) ==
  LET arr == IF a.t = "array" THEN a.recs
             ELSE IF n = 1 /\ a.t \in {"object", "text"} THEN a.recs
             ELSE <<>>
      exact == FindExact(arr, lower)
  IN  IF ~ResOk(a) THEN NoContact
      ELSE IF n = 1 THEN exact
      ELSE IF a.t # "array" THEN NoContact
      ELSE IF exact # NoContact THEN exact
      ELSE IF n = 2 /\ Len(a.recs) = 1 THEN a.recs[1]
      ELSE NoContact

(***************************************************************************)
(* Responses                                                               *)
(***************************************************************************)
\* statusCode and the members of the JSON body; statusCode 0: no response.
\* ok is "true", "false" or "" (absent).
NoResp ==
  [statusCode |-> 0, ok |-> "", skipped |-> "", msg |-> "", error |-> "",
   contactID |-> 0, email |-> <<>>, noteLength |-> 0, status |-> 0, axcStatus |-> 0,
   tried |-> <<>>, lastFetch |-> <<>>, created |-> ""]

\* { statusCode, body: JSON.stringify({ error }) }
Err(code, text) == [NoResp EXCEPT !.statusCode = code, !.error = text]

\* an invocation that has not begun: what every local of the handler holds
\* before its first statement
Fresh ==
  [hpc |-> "start", did |-> <<>>, customerEmail |-> Undefined, note |-> <<>>, stage |-> 0,
   tried |-> <<>>, contact |-> NoContact, writes |-> <<>>, lastFetch |-> <<>>,
   answers |-> <<>>, response |-> NoResp]

\* there is no second invocation
NoOther == [Fresh EXCEPT !.hpc = "off"]

\* no invocation is in progress (specification SigSpec)
HandlerOff ==
  /\ variant = "none" /\ hpc = "off" /\ did = <<>> /\ customerEmail = Undefined
  /\ note = <<>> /\ stage = 0 /\ tried = <<>> /\ contact = NoContact
  /\ writes = <<>> /\ lastFetch = <<>> /\ answers = <<>> /\ response = NoResp
  /\ res = NoAnswer /\ offset = 0 /\ other = NoOther

(***************************************************************************)
(* Requests served by the handlers                                         *)
(***************************************************************************)
Member(k, v) == Q(k) \o <<":">> \o v

\* {"type":"Email","direction":"Outbound","textBody":"Hi there"}
ThreadA ==
  <<"{">> \o Member("type", Q("Email")) \o <<",">> \o Member("direction", Q("Outbound"))
  \o <<",">> \o Member("textBody", <<QT, "Hi", SP, "there", QT>>) \o <<"}">>

\* {"data":{"contactInfo":{"email":"a@x.com"},"threads":[...],"subject":"Re: Order"}}
HBScenarioA ==
  <<"{">> \o Member("data",
    <<"{">> \o Member("contactInfo", <<"{">> \o Member("email", Q("a@x.com")) \o <<"}">>)
    \o <<",">> \o Member("threads", <<"[">> \o ThreadA \o <<"]">>)
    \o <<",">> \o Member("subject", <<QT, "Re", ":", SP, "Order", QT>>) \o <<"}">>)
  \o <<"}">>

\* {"type":"Email","direction":"Outbound","createdAt":at,"textBody":text}
ThreadAt(at, text) ==
  <<"{">> \o Member("type", Q("Email")) \o <<",">> \o Member("direction", Q("Outbound"))
  \o <<",">> \o Member("createdAt", Q(at)) \o <<",">> \o Member("textBody", Q(text))
  \o <<"}">>

\* {"data":{"contactInfo":{"email":"a@x.com"},"threads":[later, earlier]}}: two
\* outbound emails, the later one first in the array
HBTwoThreads ==
  <<"{">> \o Member("data",
    <<"{">> \o Member("contactInfo", <<"{">> \o Member("email", Q("a@x.com")) \o <<"}">>)
    \o <<",">> \o Member("threads", <<"[">> \o ThreadAt("t2", "New") \o <<",">>
                                      \o ThreadAt("t1", "Old") \o <<"]">>) \o <<"}">>)
  \o <<"}">>

\* {"data":{"subject":"x"}}
HBNoEmail == <<"{">> \o Member("data", <<"{">> \o Member("subject", Q("x")) \o <<"}">>) \o <<"}">>

\* {"contact":{"email":"A@X.COM"}}
HBBare == <<"{">> \o Member("contact", <<"{">> \o Member("email", Q("A@X.COM")) \o <<"}">>) \o <<"}">>

\* {"data":{"contact":{"email":{"k":"v"}}}}
HBObjEmail ==
  <<"{">> \o Member("data", <<"{">> \o Member("contact",
     <<"{">> \o Member("email", <<"{">> \o Member("k", Q("v")) \o <<"}">>) \o <<"}">>) \o <<"}">>)
  \o <<"}">>

\* {"data":{"inbox":{"connectedEmailAddress":"b@x.com"}}}
HBInboxOnly ==
  <<"{">> \o Member("data", <<"{">> \o Member("inbox",
     <<"{">> \o Member("connectedEmailAddress", Q("b@x.com")) \o <<"}">>) \o <<"}">>)
  \o <<"}">>

\* {"data":{"customer":{"email":"a@x.com"}}}
HBCustomer ==
  <<"{">> \o Member("data", <<"{">> \o Member("customer",
     <<"{">> \o Member("email", Q("a@x.com")) \o <<"}">>) \o <<"}">>)
  \o <<"}">>

\* a body text longer than the longest note: x x x ...
LongText == [n \in 1..(NoteMax + 3) |-> IF n % 2 = 1 THEN "x" ELSE SP]

\* {"data":{"customer":{"email":"a@x.com"},"message":{"body":"x x x ..."}}}
HBLong ==
  <<"{">> \o Member("data", <<"{">> \o Member("customer",
     <<"{">> \o Member("email", Q("a@x.com")) \o <<"}">>) \o <<",">>
     \o Member("message", <<"{">> \o Member("body", <<QT>> \o LongText \o <<QT>>)
                           \o <<"}">>) \o <<"}">>)
  \o <<"}">>

\* {"data":{"customer":{"email":"a@x.com"},"message":{"htmlBody":"<p> </p>"}}}
HBBlank ==
  <<"{">> \o Member("data", <<"{">> \o Member("customer",
     <<"{">> \o Member("email", Q("a@x.com")) \o <<"}">>) \o <<",">>
     \o Member("message", <<"{">> \o Member("htmlBody", <<QT, "<p>", SP, "</p>", QT>>)
                           \o <<"}">>) \o <<"}">>)
  \o <<"}">>

\* {"data":{"customer":{"email":"a@x.com"},"message":{"htmlBody":{"toString":"x"}}}}
HBOwnToString ==
  <<"{">> \o Member("data", <<"{">> \o Member("customer",
     <<"{">> \o Member("email", Q("a@x.com")) \o <<"}">>) \o <<",">>
     \o Member("message", <<"{">> \o Member("htmlBody",
           <<"{">> \o Member("toString", Q("x")) \o <<"}">>) \o <<"}">>) \o <<"}">>)
  \o <<"}">>

\* {"data":{"contact":{"email":"c@x.com"},"customer":{"email":"c@x.com"}}}: an
\* address that no record of the directory carries
HBStranger ==
  <<"{">> \o Member("data", <<"{">> \o Member("contact",
     <<"{">> \o Member("email", Q("c@x.com")) \o <<"}">>) \o <<",">>
     \o Member("customer", <<"{">> \o Member("email", Q("c@x.com")) \o <<"}">>) \o <<"}">>)
  \o <<"}">>

\* SB7 is not JSON but has a raw "data" substring
HandlerBodies ==
  {HBScenarioA, HBTwoThreads, HBCustomer, HBStranger, HBLong, HBBlank, HBOwnToString, HBNoEmail,
   HBInboxOnly, HBBare, HBObjEmail, SB7, <<>>}

HandlerHeaders(b) ==
  {[name |-> "none", value |-> <<>>], [name |-> "x-td-signature", value |-> <<Lit("junk")>>]}
  \cup {[name |-> "x-td-signature", value |-> hmacBase64(k, t)] :
          k \in Keys, t \in SignedTexts(b)}
  \cup {[name |-> "X-TD-Signature", value |-> <<Lit("sha1=")>> \o hmacBase64("k1", t)] :
          t \in SignedTexts(b)}
  \cup {[name |-> n, value |-> hmacBase64("k1", t)] :
          n \in {"X-Td-Signature", "X-TD-SIGNATURE"}, t \in SignedTexts(b)}

Methods == {"POST", "GET", "OPTIONS"}

Variants == {"part_001", "part_002", "part_000", "part_003"}

(***************************************************************************)
(* part_000: extraction and composition                                    *)
(***************************************************************************)
\* data?.contact?.email || data?.contactInfo?.email ||
\* data?.inbox?.connectedEmailAddress || null
contactEmail0(data) ==
  Or(Prop(Prop(data, "contact"), "email"),
  Or(Prop(Prop(data, "contactInfo"), "email"),
  Or(Prop(Prop(data, "inbox"), "connectedEmailAddress"), JNull)))

\* t?.type === "Email" && (t?.direction === "Outbound" || t?.direction === "Agent")
IsOutboundEmail0(t) ==
  /\ Prop(t, "type") = JStr(<<"Email">>)
  /\ Prop(t, "direction") \in {JStr(<<"Outbound">>), JStr(<<"Agent">>)}

\* new Date(t.createdAt) as a number: the words t1 and t2 stand for an
\* earlier and a later date string, anything else is no date (NaN, here 0)
Stamp(t) ==
  IF Prop(t, "createdAt") = JStr(<<"t1">>) THEN 1
  ELSE IF Prop(t, "createdAt") = JStr(<<"t2">>) THEN 2
  ELSE 0

\* The thread the sort by createdAt, latest first, puts first (the sort is
\* stable).  Where an outbound email carries no date the comparison gives
\* NaN and the order is left open.
EmailThreads0(data) ==
  LET threads == IF Prop(data, "threads").t = "arr" THEN Prop(data, "threads").m ELSE <<>>
      idx == {k \in 1..Len(threads) : IsOutboundEmail0(threads[k])}
  IN  IF idx = {} THEN {JNull}
      ELSE IF \A k \in idx : Stamp(threads[k]) > 0
        THEN {threads[CHOOSE n \in idx : \A k \in idx :
                        \/ Stamp(threads[k]) < Stamp(threads[n])
                        \/ Stamp(threads[k]) = Stamp(threads[n]) /\ n <= k]}
      ELSE {threads[k] : k \in idx}

\* html.replace(/<[^>]+>/g, "")
StripTags(h) ==
  SelectSeq(h, LAMBDA x : x \notin Tags \cup {"<br>", "<br/>", "</p>", "<style>", "</style>",
                                            "<script>", "</script>"})

RECURSIVE TrimText(_)
\* String.prototype.trim on text
TrimText(h) ==
  IF Len(h) = 0 THEN h
  ELSE IF h[1] \in {SP, "\n"} THEN TrimText(Tail(h))
  ELSE IF h[Len(h)] \in {SP, "\n"} THEN TrimText(SubSeq(h, 1, Len(h) - 1))
  ELSE h

RECURSIVE SquashBeforeBreak(_)
\* .replace(/\s+\n/g, "\n"): white space before a line break is dropped
SquashBeforeBreak(h) ==
  IF Len(h) < 2 THEN h
  ELSE IF h[1] \in {SP, "\n"} /\ h[2] = "\n" THEN SquashBeforeBreak(Tail(h))
  ELSE IF h[1] = SP /\ \E k \in 2..Len(h) :
            h[k] = "\n" /\ \A x \in 2..(k - 1) : h[x] \in {SP, "\n"}
       THEN SquashBeforeBreak(Tail(h))
  ELSE <<h[1]>> \o SquashBeforeBreak(Tail(h))

\* html.replace on a truthy htmlBody that is no string is a TypeError
Compose0Throws(emailThread) ==
  /\ ~Truthy(Prop(emailThread, "textBody"))
  /\ Truthy(Prop(emailThread, "htmlBody"))
  /\ Prop(emailThread, "htmlBody").t # "str"

\* part_000 lines 56-62 and the slice of line 108
ComposeNote0(data, emailThread) ==
  LET subject == Or(Prop(data, "subject"), JStr(<<"(no subject)">>))
      plain == Or(Prop(emailThread, "textBody"), JStr(<<>>))
      html == Or(Prop(emailThread, "htmlBody"), JStr(<<>>))
      rest == IF Truthy(plain) THEN StringOf(plain)
              ELSE IF Truthy(html)
                THEN TrimText(SquashBeforeBreak(StripTags(StringOf(html))))
              ELSE StringOf(Or(Prop(data, "excerpt"), JStr(<<>>)))
  IN  Slice(<<"Subject: ">> \o StringOf(subject) \o <<"\n", "\n">> \o rest, NoteMax)

\* (c.EMAILADDRESS || c.CUSTOMFIELD_PERSONALEMAIL || "").toLowerCase() === lower
isExactEmail0(c, lower) ==
  LET e == IF c.EMAILADDRESS # "" THEN c.EMAILADDRESS ELSE c.CUSTOMFIELD_PERSONALEMAIL
  IN  (IF e = "" THEN <<>> ELSE <<LowerWord(e)>>) = lower

\* the URL of the n-th entry of tryUrls
Url0(n, email) ==
  LET e == encodeURIComponent(email) IN
  IF n = 1 THEN Url("/api/contacts", "emailAddress", e, "")
  ELSE Url("/api/contacts/search", "search", e, "displayLength=50")

(***************************************************************************)
(* part_003: parsing, extraction and composition                           *)
(***************************************************************************)
\* parseBody(event).json: a body that is no JSON is taken for {}
parseBody(evt) ==
  LET p == JSONparse(IF evt.body = <<>> THEN <<"{", "}">> ELSE evt.body)
  IN  IF p.ok THEN p.val ELSE JObj(<<>>)

\* msg.to[0] when msg.to is an array with an element, else undefined
FirstTo(msg) ==
  IF Prop(msg, "to").t = "arr" /\ Prop(msg, "to").m # <<>> THEN Prop(msg, "to").m[1]
  ELSE Undefined

\* msg.to[0].email on an element that is null is a TypeError
Extract3Throws(payload) ==
  LET p == Or(payload, JObj(<<>>))
      d == Or(Prop(p, "data"), p)
      msg == Or(Prop(d, "message"), Or(Prop(p, "message"), JObj(<<>>)))
  IN  Prop(msg, "to").t = "arr" /\ Prop(msg, "to").m # <<>> /\ FirstTo(msg).t = "null"

extractEmail(payload) ==
  LET p == Or(payload, JObj(<<>>))
      d == Or(Prop(p, "data"), p)
      conv == Or(Prop(d, "conversation"), Or(Prop(p, "conversation"), JObj(<<>>)))
      msg == Or(Prop(d, "message"), Or(Prop(p, "message"), JObj(<<>>)))
      cust == Or(Prop(d, "customer"), Or(Prop(p, "customer"),
              Or(Prop(conv, "customer"), JObj(<<>>))))
  IN  Or(Prop(cust, "email"),
      Or(Prop(cust, "emailAddress"),
      Or(Prop(Prop(conv, "customer"), "email"),
      Or(Prop(Prop(conv, "customer"), "emailAddress"),
      Or(Or(Prop(FirstTo(msg), "email"), Prop(FirstTo(msg), "address")),
      Or(Or(Prop(Prop(msg, "from"), "email"), Prop(Prop(msg, "from"), "address")),
         JNull))))))

extractAgentName(payload) ==
  LET d == Or(Prop(payload, "data"), Or(payload, JObj(<<>>)))
      user == Or(Prop(d, "user"), Or(Prop(d, "agent"), Or(Prop(d, "actor"), JObj(<<>>))))
  IN  Or(Prop(user, "name"), Or(Prop(user, "full_name"), Or(Prop(user, "display_name"),
         JStr(<<"ThriveDesk Agent">>))))

extractMessageText(payload) ==
  LET d == Or(Prop(payload, "data"), Or(payload, JObj(<<>>)))
      msg == Or(Prop(d, "message"), Or(Prop(payload, "message"), JObj(<<>>)))
      subj == IF Truthy(Prop(msg, "subject")) THEN StringOf(Prop(msg, "subject")) ELSE <<>>
      snip == IF Truthy(Prop(msg, "snippet")) THEN StringOf(Prop(msg, "snippet")) ELSE <<>>
      both == subj \o (IF subj # <<>> /\ snip # <<>> THEN <<" - ">> ELSE <<>>) \o snip
  IN  Or(Prop(msg, "plaintext"), Or(Prop(msg, "text"), Or(Prop(msg, "body"),
      Or(Prop(msg, "html"), Or(JStr(both), JStr(<<"(no message body provided)">>))))))

\* part_003 lines 152-159 and 167-175; the time stamp is the one symbol DATE
ComposeNote3(json, email) ==
  LET convId == Or(Prop(Prop(Prop(json, "data"), "conversation"), "id"),
                Or(Prop(Prop(json, "conversation"), "id"),
                Or(Prop(Prop(json, "data"), "conversation_id"),
                Or(Prop(json, "conversation_id"), JStr(<<>>)))))
      lines == << <<"ThriveDesk email sent by: ">> \o StringOf(extractAgentName(json)),
                  <<"To: ">> \o StringOf(email),
                  IF Truthy(convId)
                    THEN <<"Conversation: https://app.thrivedesk.com/inboxes/conversations/">>
                         \o StringOf(convId)
                    ELSE <<>>,
                  <<"Date: ", "DATE">>,
                  <<>>,
                  StringOf(extractMessageText(json)) >>
  IN  JoinLines(lines, TRUE)

\* (c.EMAILADDRESS && ... === email.toLowerCase()) ||
\* (c.CUSTOMFIELD_PERSONALEMAIL && ... === email.toLowerCase())
isExactEmail3(c, lower) ==
  \/ c.EMAILADDRESS # "" /\ <<LowerWord(c.EMAILADDRESS)>> = lower
  \/ c.CUSTOMFIELD_PERSONALEMAIL # "" /\ <<LowerWord(c.CUSTOMFIELD_PERSONALEMAIL)>> = lower

\* the URL of findContactByEmail (part_003)
Url3(email) ==
  Url("/api/contacts/search", "emailAddress", encodeURIComponent(email), "displayLength=100")

(***************************************************************************)
(* SigSpec: the verifiers applied to a request, then to the same request   *)
(* with one symbol of the raw "data" substring replaced.                   *)
(***************************************************************************)
Verifiers == {"verifyTdSignature", "hmacOk", "hmacValid", "verifyThriveDeskSignature"}

NoOrig == [set |-> FALSE, body |-> <<>>, pos |-> 0]

SigInit ==
  /\ verifier \in Verifiers
  /\ env \in {e \in Envs : e.AXC_CONFIGURED}
  /\ \E b \in SigBodies : \E h \in HeadersFor(b) :
       event = [httpMethod |-> "POST", headers |-> h, body |-> b]
  /\ spc = "fresh"
  /\ verdict = [ok |-> FALSE, mode |-> ""]
  /\ orig = NoOrig
  /\ HandlerOff

Verified(st) == IF st = "fresh" THEN "verified" ELSE "reverified"

SigVerifyTd ==
  /\ verifier = "verifyTdSignature"
  /\ spc \in {"fresh", "tampered"}
  /\ verdict' = [ok |-> verifyTdSignature(event), mode |-> ""]
  /\ spc' = Verified(spc)
  /\ UNCHANGED <<env, event, verifier, orig, hvars>>

\* part_003 handler lines 132-135
SigVerifyHmacOk ==
  /\ verifier = "hmacOk"
  /\ spc = "fresh"
  /\ verdict' = [ok |-> hmacOk(env.TD_WEBHOOK_SECRET, event.body, HmacOkHeader(event)),
                 mode |-> ""]
  /\ spc' = "verified"
  /\ UNCHANGED <<env, event, verifier, orig, hvars>>

\* part_000 handler lines 26-36: reached with a parsed body whose data is truthy
SigVerifyHmacValid ==
  /\ verifier = "hmacValid"
  /\ spc = "fresh"
  /\ LET body == JSONparse(IF event.body = <<>> THEN <<"{", "}">> ELSE event.body)
         data == Prop(body.val, "data")
     IN  /\ body.ok /\ Truthy(data)
         /\ verdict' = [ok |-> hmacValid(data, reqHeader(event), env.TD_WEBHOOK_SECRET),
                        mode |-> ""]
  /\ spc' = "verified"
  /\ UNCHANGED <<env, event, verifier, orig, hvars>>

\* part_004 handler line 120
SigVerifyThriveDesk ==
  /\ verifier = "verifyThriveDeskSignature"
  /\ spc = "fresh"
  /\ verdict' = verifyThriveDeskSignature(event, env.TD_WEBHOOK_SECRET)
  /\ spc' = "verified"
  /\ UNCHANGED <<env, event, verifier, orig, hvars>>

\* body b with the symbol at position i replaced by c
Replace(b, i, c) == [b EXCEPT ![i] = c]

\* An accepted request is sent again, same headers, with one symbol inside
\* the raw "data" substring of its body replaced by another.
Tamper ==
  /\ verifier = "verifyTdSignature"
  /\ spc = "verified"
  /\ verdict.ok
  /\ LET sp == RawDataSpan(event.body) IN
       /\ sp.ok
       /\ \E i \in sp.from..sp.to : \E c \in TamperSymbols \ {event.body[i]} :
            /\ event' = [event EXCEPT !.body = Replace(event.body, i, c)]
            /\ orig' = [set |-> TRUE, body |-> event.body, pos |-> i]
  /\ spc' = "tampered"
  /\ UNCHANGED <<env, verifier, verdict, hvars>>

SigNext ==
  \/ SigVerifyTd
  \/ SigVerifyHmacOk
  \/ SigVerifyHmacValid
  \/ SigVerifyThriveDesk
  \/ Tamper


SigSpec == SigInit /\ [][SigNext]_vars

(***************************************************************************)
(* Spec: one invocation of a handler.  The handler runs to its first       *)
(* remote call in one step; each answer of the remote system is a step.    *)
(***************************************************************************)
Init ==
  /\ variant \in Variants
  /\ env \in Envs
  /\ \E m \in Methods : \E b \in HandlerBodies : \E h \in HandlerHeaders(b) :
       event = [httpMethod |-> m, headers |-> h, body |-> b]
  /\ hpc = "start"
  /\ did = <<>> /\ customerEmail = Undefined /\ note = <<>> /\ stage = 0
  /\ tried = <<>> /\ contact = NoContact /\ writes = <<>> /\ lastFetch = <<>>
  /\ answers = <<>> /\ response = NoResp /\ res = NoAnswer /\ offset = 0
  /\ other = NoOther
  /\ verifier = "none" /\ spc = "off" /\ verdict = [ok |-> FALSE, mode |-> ""]
  /\ orig = NoOrig

\* A method test that lets every method through
IsPostOrAny(evt) == TRUE

\* event.httpMethod !== "POST" is false
IsPost(evt) == evt.httpMethod = "POST"

\* return r, having performed the stages d
Reply(r, d) ==
  /\ response' = r
  /\ did' = d
  /\ hpc' = "done"

\* an exception leaves an async function without try/catch: no response
Crash(d) ==
  /\ did' = d
  /\ hpc' = "crashed"
  /\ response' = response

\* await fetch(url, ...) on a call that never completes: the handler stays
\* suspended at the await with the stages d begun
Hang(d) ==
  /\ did' = d
  /\ hpc' = "waiting"
  /\ response' = response

\* part_001 and part_002 lines 214-280: from the method check to the first
\* directory query
Start12(v) ==
  /\ variant = v
  /\ hpc = "start"
  /\ LET payload == JSONparse(event.body)
         data == IF payload.ok THEN Or(Prop(payload.val, "data"), payload.val)
                 ELSE Undefined
         email == pickCustomerEmail(data)
     IN  /\ IF ~IsPost(event) THEN
              Reply(Err(405, "Use POST with JSON"), <<>>)
            ELSE IF ~env.AXC_CONFIGURED THEN
              Reply(Err(500, "Missing aXcelerate env vars"), <<>>)
            ELSE IF event.body = <<>> THEN
              Reply(Err(400, "Missing body"), <<>>)
            ELSE IF ~verifyTdSignature(event) /\ ~env.ALLOW_UNVERIFIED THEN
              Reply(Err(401, "Signature check failed"), <<"verify">>)
            ELSE IF ~payload.ok THEN
              Reply(Err(400, "Body must be JSON"), <<"verify", "parse">>)
            ELSE IF ~Truthy(email) THEN
              Reply([NoResp EXCEPT !.statusCode = 200, !.ok = "true",
                                   !.skipped = "no customer email"],
                    <<"verify", "parse", "extract">>)
            ELSE IF v = "part_001" /\ Extract1Throws(data, email) THEN
              Reply(Err(500, "Cannot convert object to primitive value"),
                    <<"verify", "parse", "extract">>)
            ELSE IF v = "part_002" /\ Compose2Throws THEN
              Reply(Err(500, "connectedAddr is not defined"),
                    <<"verify", "parse", "extract", "compose">>)
            ELSE IF email.t # "str" THEN
              Reply(Err(500, "email.toLowerCase is not a function"),
                    <<"verify", "parse", "extract", "compose">>)
            ELSE /\ did' = <<"verify", "parse", "extract", "compose">>
                 /\ hpc' = "lookup"
                 /\ response' = response
         /\ customerEmail' = IF payload.ok THEN email ELSE customerEmail
         /\ note' = IF hpc' = "lookup" THEN ComposeNote1(data, email) ELSE note
         /\ stage' = IF hpc' = "lookup" THEN 1 ELSE stage
  /\ UNCHANGED <<env, event, sigvars, other, variant, res, offset, tried, contact, writes, lastFetch, answers>>

P1Start == Start12("part_001")

P2Start == Start12("part_002")

\* A test that takes every result of the resolver for a contact
HasContactIdAlways(c) == TRUE

\* contact?.CONTACTID is truthy
HasContactId(c) == c.CONTACTID # 0

\* part_001: the answer to the n-th query of findContactByEmail, and what
\* the handler does when findContactByEmail returns (lines 280-284)
P1Lookup(n) ==
  /\ variant = "part_001"
  /\ hpc = "lookup"
  /\ stage = n
  /\ \E a \in DirAnswers :
       /\ answers' = Append(answers, [to |-> "directory", a |-> a])
       /\ LET c == StageContact1(n, a, toLowerCase(customerEmail.s))
              urls == Push(tried, Url1(n, customerEmail.s))
          IN  IF a.kind = "never" THEN
                /\ Hang(Append(did, "query"))
                /\ UNCHANGED <<tried, contact, stage>>
              ELSE IF a.kind = "throw" THEN
                /\ Reply(Err(500, "fetch failed"), Append(did, "query"))
                /\ UNCHANGED <<tried, contact, stage>>
              ELSE IF c = NoContact /\ n < 3 THEN
                /\ tried' = urls
                /\ stage' = n + 1
                /\ did' = Append(did, "query")
                /\ UNCHANGED <<hpc, contact, response>>
              ELSE IF ~HasContactId(c) THEN
                /\ Reply([NoResp EXCEPT !.statusCode = 200, !.ok = "true",
                                        !.skipped = "contact not found", !.tried = urls],
                         Append(did, "query"))
                /\ tried' = urls
                /\ contact' = c
                /\ UNCHANGED stage
              ELSE
                /\ tried' = urls
                /\ contact' = c
                /\ did' = Append(did, "query")
                /\ hpc' = "write"
                /\ UNCHANGED <<stage, response>>
  /\ UNCHANGED <<env, event, sigvars, other, variant, res, offset, customerEmail, note, writes, lastFetch>>

\* A handler that calls the note endpoint again when the write failed
AfterWriteRetry(a) == IF a.kind = "resp" /\ ResOk(a) THEN "done" ELSE "write"

\* part_001 lines 286-304: whatever the write answered, the handler returns
AfterWrite(a) == "done"

\* part_001 lines 286-300: the answer to the note write
P1Write ==
  /\ variant = "part_001"
  /\ hpc = "write"
  /\ writes' = Append(writes, [method |-> "PUT", contactID |-> contact.CONTACTID,
                               contactNote |-> note])
  /\ \E a \in WriteAnswers :
       /\ answers' = Append(answers, [to |-> "note", a |-> a])
       /\ did' = Append(did, "write")
       /\ IF a.kind = "never" THEN hpc' = "waiting" /\ response' = response
          ELSE /\ hpc' = AfterWrite(a)
               /\ response' =
                    IF a.kind = "throw" THEN Err(500, "fetch failed")
                    ELSE IF ~ResOk(a) THEN
                      [Err(502, "aXcelerate note create failed") EXCEPT !.status = a.status]
                    ELSE [NoResp EXCEPT !.statusCode = 200, !.ok = "true",
                                        !.contactID = contact.CONTACTID,
                                        !.email = customerEmail.s,
                                        !.noteLength = Len(note)]
  /\ UNCHANGED <<env, event, sigvars, other, variant, res, offset, customerEmail, note, stage, tried, contact,
                 lastFetch>>

\* part_000 lines 19-84: from the method check to the first directory query
P0Start ==
  /\ variant = "part_000"
  /\ hpc = "start"
  /\ LET body == JSONparse(IF event.body = <<>> THEN <<"{", "}">> ELSE event.body)
         data == IF body.ok THEN Prop(body.val, "data") ELSE Undefined
         email == contactEmail0(data)
     IN  \E emailThread \in EmailThreads0(data) :
         /\ IF ~IsPost(event) THEN
              Reply(Err(405, "Use POST with JSON"), <<>>)
            ELSE IF ~body.ok THEN
              Reply(Err(400, "Invalid JSON"), <<"parse">>)
            ELSE IF ~Truthy(data) THEN
              Reply(Err(400, "Missing data in payload"), <<"parse">>)
            ELSE IF ~hmacValid(data, reqHeader(event), env.TD_WEBHOOK_SECRET) THEN
              Reply(Err(401, "Invalid signature"), <<"parse", "verify">>)
            ELSE IF Compose0Throws(emailThread) THEN
              Crash(<<"parse", "verify", "extract", "compose">>)
            ELSE IF ~Truthy(email) THEN
              Reply([NoResp EXCEPT !.statusCode = 200, !.ok = "true",
                       !.msg = "No contact email on event; nothing to do."],
                    <<"parse", "verify", "extract", "compose">>)
            ELSE IF ~env.AXC_CONFIGURED THEN
              Reply(Err(500, "Missing AXC env vars"),
                    <<"parse", "verify", "extract", "compose">>)
            ELSE /\ did' = <<"parse", "verify", "extract", "compose">>
                 /\ hpc' = "lookup"
                 /\ response' = response
         /\ customerEmail' = IF "extract" \in {did'[n] : n \in 1..Len(did')}
                             THEN email ELSE customerEmail
         /\ note' = IF hpc' = "lookup" THEN ComposeNote0(data, emailThread) ELSE note
         /\ stage' = IF hpc' = "lookup" THEN 1 ELSE stage
  /\ UNCHANGED <<env, event, sigvars, other, variant, res, offset, tried, contact, writes, lastFetch, answers>>

\* part_000 lines 83-103: the answer to the n-th URL of tryUrls
P0Lookup(n) ==
  /\ variant = "part_000"
  /\ hpc = "lookup"
  /\ stage = n
  /\ \E a \in DirAnswers :
       /\ answers' = Append(answers, [to |-> "directory", a |-> a])
       /\ LET u == Url0(n, StringOf(customerEmail))
              lf == <<[url |-> u, status |-> a.status]>>
              k == FirstOf({x \in 1..Len(a.recs) :
                              isExactEmail0(a.recs[x], toLowerCase(customerEmail.s))})
              c == IF k = 0 THEN a.recs[1] ELSE a.recs[k]
              found == ResOk(a) /\ a.t = "array" /\ a.recs # <<>>
              \* r.json() on a body that is no JSON, contactEmail.toLowerCase()
              \* on an email that is no string
              throws == \/ a.kind = "throw"
                        \/ ResOk(a) /\ a.t \in {"text", "null"}
                        \/ found /\ customerEmail.t # "str"
          IN  IF a.kind = "never" THEN
                /\ Hang(Append(did, "query"))
                /\ UNCHANGED <<tried, lastFetch, contact, stage>>
              ELSE IF throws THEN
                /\ Crash(Append(did, "query"))
                /\ tried' = IF a.kind = "throw" THEN tried ELSE Append(tried, u)
                /\ lastFetch' = IF a.kind = "throw" THEN lastFetch ELSE lf
                /\ UNCHANGED <<contact, stage>>
              ELSE IF ~found /\ n < 2 THEN
                /\ tried' = Append(tried, u)
                /\ lastFetch' = lf
                /\ stage' = n + 1
                /\ did' = Append(did, "query")
                /\ UNCHANGED <<hpc, contact, response>>
              ELSE IF ~found \/ ~HasContactId(c) THEN
                /\ Reply([NoResp EXCEPT !.statusCode = 200, !.ok = "true",
                            !.msg = "No matching contact found", !.lastFetch = lf],
                         Append(did, "query"))
                /\ tried' = Append(tried, u)
                /\ lastFetch' = lf
                /\ contact' = IF found THEN c ELSE contact
                /\ UNCHANGED stage
              ELSE
                /\ tried' = Append(tried, u)
                /\ lastFetch' = lf
                /\ contact' = c
                /\ did' = Append(did, "query")
                /\ hpc' = "write"
                /\ UNCHANGED <<stage, response>>
  /\ UNCHANGED <<env, event, sigvars, other, variant, res, offset, customerEmail, note, writes>>

\* part_000 lines 105-132: the answer to the note write
P0Write ==
  /\ variant = "part_000"
  /\ hpc = "write"
  /\ writes' = Append(writes, [method |-> "POST", contactID |-> contact.CONTACTID,
                               contactNote |-> note])
  /\ \E a \in WriteAnswers :
       /\ answers' = Append(answers, [to |-> "note", a |-> a])
       /\ IF a.kind = "never" THEN Hang(Append(did, "write"))
          ELSE IF a.kind = "throw" THEN Crash(Append(did, "write"))
          ELSE Reply([NoResp EXCEPT !.statusCode = IF ResOk(a) THEN 200 ELSE 202,
                                    !.ok = IF ResOk(a) THEN "true" ELSE "false",
                                    !.contactID = contact.CONTACTID,
                                    !.axcStatus = a.status],
                     Append(did, "write"))
  /\ UNCHANGED <<env, event, sigvars, other, variant, res, offset, customerEmail, note, stage, tried, contact,
                 lastFetch>>

\* part_003 lines 127-161: from the method check to the directory query
P3Start ==
  /\ variant = "part_003"
  /\ hpc = "start"
  /\ LET json == parseBody(event)
         email == extractEmail(json)
     IN  /\ IF ~IsPost(event) THEN
              Reply(Err(405, "Use POST with JSON"), <<>>)
            ELSE IF ~hmacOk(env.TD_WEBHOOK_SECRET, event.body, HmacOkHeader(event)) THEN
              Reply(Err(401, "Bad signature"), <<"parse", "verify">>)
            ELSE IF Extract3Throws(json) THEN
              Crash(<<"parse", "verify", "extract">>)
            ELSE IF ~Truthy(email) THEN
              Reply([NoResp EXCEPT !.statusCode = 200, !.ok = "true",
                                   !.skipped = "no email"],
                    <<"parse", "verify", "extract">>)
            ELSE /\ did' = <<"parse", "verify", "extract">>
                 /\ hpc' = "lookup"
                 /\ response' = response
         /\ customerEmail' = IF hpc' = "lookup" \/ (hpc' = "done" /\ response'.skipped # "")
                             THEN email ELSE customerEmail
         /\ stage' = IF hpc' = "lookup" THEN 1 ELSE stage
  /\ UNCHANGED <<env, event, sigvars, other, variant, res, offset, note, tried, contact, writes, lastFetch,
                 answers>>

\* part_003 lines 161-175: the answer to the query of findContactByEmail,
\* and the note composed once the contact is known.  axcFetch throws before
\* any request when the configuration is missing; a call that does not
\* complete is aborted by AbortSignal.timeout and throws as well.
P3Lookup ==
  /\ variant = "part_003"
  /\ hpc = "lookup"
  /\ IF ~env.AXC_CONFIGURED THEN
       /\ Crash(did)
       /\ UNCHANGED <<answers, contact, note>>
     ELSE
       \E a \in DirAnswers :
         /\ answers' = Append(answers, [to |-> "directory", a |-> a])
         /\ LET arr == IF a.t = "array" THEN a.recs ELSE <<>>
                k == FirstOf({x \in 1..Len(arr) :
                                isExactEmail3(arr[x], toLowerCase(StringOf(customerEmail)))})
                c == IF k # 0 THEN arr[k] ELSE IF arr # <<>> THEN arr[1] ELSE NoContact
                throws == \/ a.kind \in {"throw", "never"}
                          \/ ~ResOk(a)
                          \/ arr # <<>> /\ customerEmail.t # "str"
            IN  IF throws THEN
                  /\ Crash(Append(did, "query"))
                  /\ UNCHANGED <<contact, note>>
                ELSE IF ~HasContactId(c) THEN
                  /\ Reply([NoResp EXCEPT !.statusCode = 200, !.ok = "true",
                                          !.skipped = "no-contact"],
                           Append(did, "query"))
                  /\ contact' = c
                  /\ UNCHANGED note
                ELSE
                  /\ contact' = c
                  /\ note' = ComposeNote3(parseBody(event), customerEmail)
                  /\ did' = did \o <<"query", "compose">>
                  /\ hpc' = "write"
                  /\ UNCHANGED response
  /\ UNCHANGED <<env, event, sigvars, other, variant, res, offset, customerEmail, stage, tried, writes,
                 lastFetch>>

\* part_003 lines 177-180: the answer to the note write
P3Write ==
  /\ variant = "part_003"
  /\ hpc = "write"
  /\ writes' = Append(writes, [method |-> "PUT", contactID |-> contact.CONTACTID,
                               contactNote |-> note])
  /\ \E a \in WriteAnswers :
       /\ answers' = Append(answers, [to |-> "note", a |-> a])
       /\ IF a.kind \in {"throw", "never"} \/ ~ResOk(a) THEN Crash(Append(did, "write"))
          ELSE Reply([NoResp EXCEPT !.statusCode = 200, !.ok = "true",
                                    !.contactID = contact.CONTACTID],
                     Append(did, "write"))
  /\ UNCHANGED <<env, event, sigvars, other, variant, res, offset, customerEmail, note, stage, tried, contact,
                 lastFetch>>

Next ==
  \/ P1Start
  \/ P2Start
  \/ \E n \in 1..3 : P1Lookup(n)
  \/ P1Write
  \/ P0Start
  \/ \E n \in 1..2 : P0Lookup(n)
  \/ P0Write
  \/ P3Start
  \/ P3Lookup
  \/ P3Write

Spec == Init /\ [][Next]_vars

(***************************************************************************)
(* ResSpec: findContactByEmail of part_001 and of part_002, called by the  *)
(* handler with an extracted email, up to the handler's decision on the    *)
(* contact it returns.                                                     *)
(***************************************************************************)
\* displayLength of a paged search, and the step of offset
PageSize == 100

\* the last offset pagedExact asks for
MaxOffset == 900

\* a loop test that lets one more page through
InRangeWide(off) == off <= MaxOffset + PageSize

\* while (offset <= 900)
InRange(off) == off <= MaxOffset

\* a page of PageSize records: recs come first, the others match no email
FullPage(recs) == [kind |-> "resp", status |-> 200, t |-> "array", recs |-> recs,
                   len |-> PageSize]

\* res.body.length of an array body
BodyLen(a) == IF "len" \in DOMAIN a THEN a.len ELSE Len(a.recs)

\* what the directory may answer to a query of part_002; a query made with
\* displayLength=1 is answered with at most one record
ResAnswers(st) ==
  LET all == DirAnswers \cup {FullPage(<<>>), FullPage(<<ROther, RExact>>)}
  IN  IF st >= 5 THEN {a \in all : BodyLen(a) <= 1} ELSE all

\* toLower of part_002: (s || "").toString().trim().toLowerCase()
toLower(str) == toLowerCase(TrimText(str))

\* the URL of the query of stage st: 1 the direct endpoint, 2..4 a page of
\* the search by emailAddress, q, search, 5..7 the displayLength=1 fallbacks
Url2(st, off, email) ==
  LET e == encodeURIComponent(email)
      param == CASE st \in {2, 5} -> "emailAddress" [] st \in {3, 6} -> "q"
                 [] OTHER -> "search"
  IN  IF st = 1 THEN [path |-> "/api/contacts", param |-> "emailAddress", value |-> e,
                      extra |-> "", offset |-> -1]
      ELSE IF st <= 4 THEN [path |-> "/api/contacts/search", param |-> param, value |-> e,
                            extra |-> "displayLength=100", offset |-> off]
      ELSE [path |-> "/api/contacts/search", param |-> param, value |-> e,
            extra |-> "displayLength=1", offset |-> -1]

\* part_002 lines 134-185 and 298-302: the answer to one query of
\* findContactByEmail, and what the handler does when it returns
P2Lookup ==
  /\ variant = "part_002"
  /\ hpc = "lookup"
  /\ \E a \in ResAnswers(stage) :
       LET lower == toLower(customerEmail.s)
           urls == Push(tried, Url2(stage, offset, customerEmail.s))
           isArr == a.t = "array"
           arr == IF isArr THEN a.recs
                  ELSE IF stage = 1 /\ a.t \in {"object", "text"} THEN a.recs
                  ELSE <<>>
           exact == FindExact(arr, lower)
           stop == ~ResOk(a) \/ ~isArr \/ BodyLen(a) = 0
           found == IF stage = 1 THEN (IF ResOk(a) THEN exact ELSE NoContact)
                    ELSE IF stage <= 4 THEN (IF stop THEN NoContact ELSE exact)
                    ELSE IF ResOk(a) /\ isArr /\ BodyLen(a) = 1 THEN a.recs[1]
                    ELSE NoContact
           more == /\ stage \in 2..4 /\ ~stop /\ exact = NoContact
                   /\ ~(BodyLen(a) < PageSize) /\ InRange(offset + PageSize)
       IN  /\ res' = a
           /\ IF a.kind = "never" THEN
                /\ Hang(Append(did, "query"))
                /\ UNCHANGED <<tried, contact, stage, offset>>
              ELSE IF a.kind = "throw" THEN
                /\ Reply(Err(500, "fetch failed"), Append(did, "query"))
                /\ UNCHANGED <<tried, contact, stage, offset>>
              ELSE IF found = NoContact /\ more THEN
                /\ tried' = urls
                /\ offset' = offset + PageSize
                /\ did' = Append(did, "query")
                /\ UNCHANGED <<hpc, contact, response, stage>>
              ELSE IF found = NoContact /\ stage < 7 THEN
                /\ tried' = urls
                /\ stage' = stage + 1
                /\ offset' = 0
                /\ did' = Append(did, "query")
                /\ UNCHANGED <<hpc, contact, response>>
              ELSE IF ~HasContactId(found) THEN
                /\ Reply([NoResp EXCEPT !.statusCode = 200, !.ok = "true",
                                        !.skipped = "contact not found", !.tried = urls],
                         Append(did, "query"))
                /\ tried' = urls
                /\ contact' = found
                /\ UNCHANGED <<stage, offset>>
              ELSE
                /\ tried' = urls
                /\ contact' = found
                /\ did' = Append(did, "query")
                /\ hpc' = "write"
                /\ UNCHANGED <<stage, offset, response>>
  /\ UNCHANGED <<env, event, sigvars, other, variant, customerEmail, note, writes, lastFetch,
                 answers>>

\* {"data":{"contactInfo":{"email":"..."}}} with the email text s
HBFor(s) ==
  <<"{">> \o Member("data", <<"{">> \o Member("contactInfo",
     <<"{">> \o Member("email", <<QT>> \o s \o <<QT>>) \o <<"}">>) \o <<"}">>)
  \o <<"}">>

\* the handler stands at the call of findContactByEmail (part_001 line 280,
\* part_002 line 298) with the email of the request extracted and the note
\* composed
ResInit ==
  /\ variant \in {"part_001", "part_002"}
  /\ env = [TD_WEBHOOK_SECRET |-> "", ALLOW_UNVERIFIED |-> FALSE, AXC_CONFIGURED |-> TRUE]
  /\ \E s \in {<<"a@x.com">>, <<"A@X.COM">>, <<SP, "a@x.com">>} :
       /\ event = [httpMethod |-> "POST", headers |-> [name |-> "none", value |-> <<>>],
                   body |-> HBFor(s)]
       /\ customerEmail = JStr(s)
       /\ note = ComposeNote1(Prop(JSONparse(HBFor(s)).val, "data"), JStr(s))
  /\ hpc = "lookup" /\ stage = 1 /\ offset = 0
  /\ did = <<"verify", "parse", "extract", "compose">>
  /\ tried = <<>> /\ contact = NoContact /\ writes = <<>> /\ lastFetch = <<>>
  /\ answers = <<>> /\ response = NoResp /\ res = NoAnswer /\ other = NoOther
  /\ verifier = "none" /\ spc = "off" /\ verdict = [ok |-> FALSE, mode |-> ""]
  /\ orig = NoOrig

ResNext ==
  \/ \E n \in 1..3 : P1Lookup(n)
  \/ P2Lookup

ResSpec == ResInit /\ [][ResNext]_vars

(***************************************************************************)
(* Claims on the verifiers (SigSpec)                                       *)
(***************************************************************************)
SecretOn == env.TD_WEBHOOK_SECRET # "" /\ ~env.ALLOW_UNVERIFIED

\* C2 (as claimed): with no webhook secret configured every variant's
\* verifier accepts the request, whatever the signature header.
C2_NoSecretAccepts ==
  (spc = "verified" /\ env.TD_WEBHOOK_SECRET = "") => verdict.ok

\* C3 (as claimed): with a secret configured and bypass off, an accepted
\* request whose body is changed in one symbol inside the raw "data"
\* substring, sent with the same header, is rejected.
C3_TamperRejected ==
  (spc = "reverified" /\ SecretOn) => ~verdict.ok

\* the header of the request is the HMAC of the raw "data" substring of the
\* body it was first sent with
SignedRaw ==
  /\ orig.set
  /\ TdHeader(event) = hmacBase64(env.TD_WEBHOOK_SECRET, extractRawDataSubstring(orig.body))

\* C3 (amended): when the header is the HMAC of the raw "data" substring of
\* the original body, the altered body is rejected unless JSON.stringify of
\* its parsed data is still that raw substring.
C3_TamperRejectedUnlessReserialized ==
  (spc = "reverified" /\ SecretOn /\ SignedRaw /\ verdict.ok)
    => TdC2(env.TD_WEBHOOK_SECRET, event.body) = TdHeader(event)

\* C3 witness: an altered body was verified against the HMAC of the original
\* raw substring and rejected.
C3_Witness ==
  spc = "reverified" /\ SecretOn /\ SignedRaw /\ ~verdict.ok

\* C4: when the header is the HMAC of the raw "data" substring of the body,
\* verifyTdSignature accepts, whatever JSON.stringify of the parsed data is.
C4_RawSignedAccepted ==
  (/\ verifier = "verifyTdSignature" /\ spc = "verified"
   /\ extractRawDataSubstring(event.body) # <<>>
   /\ TdHeader(event) = hmacBase64(env.TD_WEBHOOK_SECRET, extractRawDataSubstring(event.body)))
    => verdict.ok

\* C4 witness: such a request whose re-serialised data differs from the raw
\* substring was accepted on the HMAC comparison.
C4_Witness ==
  /\ verifier = "verifyTdSignature" /\ spc = "verified" /\ SecretOn
  /\ TdHeader(event) = TdC1(env.TD_WEBHOOK_SECRET, event.body)
  /\ TdC2(env.TD_WEBHOOK_SECRET, event.body) # <<>>
  /\ TdC2(env.TD_WEBHOOK_SECRET, event.body) # TdC1(env.TD_WEBHOOK_SECRET, event.body)
  /\ verdict.ok

\* C5 (as claimed): hmacOk accepts a header only when it equals a computed
\* candidate; a header of another length, even one that contains a
\* candidate, is a non-match.
C5_NoSubstringAccept ==
  (/\ verifier = "hmacOk" /\ spc = "verified" /\ env.TD_WEBHOOK_SECRET # ""
   /\ HmacOkHeader(event) \notin HmacOkCandidates(env.TD_WEBHOOK_SECRET, event.body))
    => ~verdict.ok

(***************************************************************************)
(* Claims on the handlers (Spec)                                           *)
(***************************************************************************)
Handler12 == variant \in {"part_001", "part_002"}

Performed(x) == \E n \in 1..Len(did) : did[n] = x

\* the signature header is absent, empty or equals none of the three
\* candidates
BadSignature ==
  LET header == TdHeader(event)
      k == env.TD_WEBHOOK_SECRET
  IN  \/ header = <<>>
      \/ header \notin ({TdC1(k, event.body), TdC2(k, event.body), TdC3(k, event.body)}
                         \ {<<>>})

\* nothing of the payload was processed and nothing was sent
NothingProcessed ==
  /\ ~Performed("parse") /\ ~Performed("extract") /\ ~Performed("compose")
  /\ ~Performed("query") /\ ~Performed("write")
  /\ tried = <<>> /\ writes = <<>> /\ answers = <<>>

RemoteAsInScenarioA ==
  \A n \in 1..Len(answers) :
    answers[n].a = IF answers[n].to = "directory" THEN Answer(200, "array", <<RExact>>)
                   ELSE Answer(200, "object", <<>>)

\* C6 (as claimed): a validly signed POST of scenario A, with the remote
\* system answering as in scenario A, ends in 200 with ok:true and the
\* contact's CONTACTID after exactly one note write carrying that CONTACTID,
\* in part_001 and in part_002.
C6_EndToEndSuccess ==
  (/\ Handler12 /\ event.httpMethod = "POST" /\ env.AXC_CONFIGURED
   /\ SecretOn /\ ~BadSignature /\ event.body = HBScenarioA
   /\ RemoteAsInScenarioA /\ hpc \in {"done", "crashed"})
    => /\ response.statusCode = 200 /\ response.ok = "true"
       /\ response.contactID = RExact.CONTACTID
       /\ Len(writes) = 1 /\ writes[1].contactID = RExact.CONTACTID

\* the body is JSON and none of the recognised fields holds an email
NoRecognisedEmail ==
  LET p == JSONparse(event.body)
      d == IF Truthy(Prop(p.val, "data")) THEN Prop(p.val, "data") ELSE p.val
  IN  /\ p.ok
      /\ \A holder \in {Prop(d, "contactInfo"), Prop(d, "contact"), Prop(d, "customer"),
                        Prop(Prop(d, "conversation"), "contact")} :
           ~Truthy(Prop(holder, "email"))

\* C7: a verified POST whose payload has no email in any recognised field
\* is answered 200 with ok:true and the skip marker, and no directory query
\* and no note write is issued.
C7_NoEmailSkipped ==
  (/\ Handler12 /\ event.httpMethod = "POST" /\ env.AXC_CONFIGURED
   /\ event.body # <<>> /\ (~SecretOn \/ ~BadSignature) /\ NoRecognisedEmail)
    => /\ hpc \in {"start", "done"}
       /\ hpc = "done" => /\ response.statusCode = 200 /\ response.ok = "true"
                          /\ response.skipped = "no customer email"
       /\ ~Performed("query") /\ ~Performed("write")
       /\ tried = <<>> /\ writes = <<>> /\ answers = <<>>

\* C7 witness: a validly signed POST without an email was skipped
C7_Witness ==
  /\ Handler12 /\ event.httpMethod = "POST" /\ SecretOn /\ ~BadSignature
  /\ NoRecognisedEmail /\ hpc = "done" /\ response.skipped = "no customer email"

\* each of the three query stages was answered 200 with an empty array
AllStagesEmpty ==
  /\ Len(answers) = 3
  /\ \A n \in 1..3 : answers[n] = [to |-> "directory", a |-> Answer(200, "array", <<>>)]

\* C8: when every stage returns zero candidates findContactByEmail returns
\* no contact without raising, and the handler of part_001 answers 200 with
\* the skip marker "contact not found" and the list of the URLs tried,
\* which is not empty, and issues no note write.
C8_NoCandidatesSkipped ==
  (variant = "part_001" /\ AllStagesEmpty)
    => /\ hpc = "done" /\ contact = NoContact
       /\ response.statusCode = 200 /\ response.ok = "true"
       /\ response.skipped = "contact not found"
       /\ response.tried # <<>> /\ response.tried = tried
       /\ writes = <<>> /\ ~Performed("write")

\* C8 witness: three empty answers ended in the skip with three URLs tried
C8_Witness ==
  /\ variant = "part_001" /\ AllStagesEmpty /\ hpc = "done"
  /\ response.skipped = "contact not found" /\ Len(response.tried) = 3

\* C9 (as claimed): when the note write is answered with a status that is
\* not 2xx, the handler responds 502 with that status in the body, having
\* issued the write once.
C9_WriteFailure502 ==
  (/\ hpc = "done" /\ answers # <<>>
   /\ answers[Len(answers)].to = "note"
   /\ answers[Len(answers)].a.kind = "resp"
   /\ ~ResOk(answers[Len(answers)].a))
    => /\ response.statusCode = 502
       /\ response.status = answers[Len(answers)].a.status
       /\ Len(writes) = 1

\* C10 (as claimed): when a directory query is answered with a status that
\* is not 2xx, the handler responds 502.
C10_DirectoryFailure502 ==
  (/\ hpc = "done"
   /\ \E n \in 1..Len(answers) :
        /\ answers[n].to = "directory" /\ answers[n].a.kind = "resp"
        /\ ~ResOk(answers[n].a))
    => response.statusCode = 502

\* C12: a request whose method is not POST is answered 405 at once: no
\* stage is performed, nothing of configuration, signature or body decides
\* the answer, and no outbound call is made.
C12_NonPost405 ==
  (event.httpMethod # "POST")
    => /\ hpc \in {"start", "done"}
       /\ hpc = "done" => (response.statusCode = 405 /\ response.error = "Use POST with JSON")
       /\ did = <<>> /\ tried = <<>> /\ writes = <<>> /\ answers = <<>>

\* C12 witness: a GET without configuration, with a secret configured and
\* without a signature header, was answered 405
C12_Witness ==
  /\ event.httpMethod = "GET" /\ ~env.AXC_CONFIGURED /\ SecretOn
  /\ event.headers.name = "none"
  /\ hpc = "done" /\ response.statusCode = 405

\* part_001 / part_003: the signature check lets the request through
SignaturePasses ==
  IF variant = "part_003"
  THEN hmacOk(env.TD_WEBHOOK_SECRET, event.body, HmacOkHeader(event))
  ELSE verifyTdSignature(event) \/ env.ALLOW_UNVERIFIED

\* C11: a POST with the configuration present, a signature that passes and a
\* body that is not parseable JSON is answered 400, and no extraction, no
\* directory query and no note write happens for it (part_001, part_003).
C11_NotJson400 ==
  (/\ variant \in {"part_001", "part_003"} /\ hpc # "start"
   /\ event.httpMethod = "POST" /\ env.AXC_CONFIGURED /\ SignaturePasses
   /\ event.body # <<>> /\ ~JSONparse(event.body).ok)
    => /\ hpc = "done" /\ response.statusCode = 400
       /\ ~Performed("extract") /\ ~Performed("query") /\ ~Performed("write")
       /\ answers = <<>> /\ writes = <<>>

\* C13: a POST received while a directory setting (base URL or either token)
\* is missing is answered 500, and no outbound call is issued (part_001,
\* part_000).
C13_MissingConfig500 ==
  (/\ variant \in {"part_001", "part_000"} /\ hpc # "start"
   /\ event.httpMethod = "POST" /\ ~env.AXC_CONFIGURED)
    => /\ hpc = "done" /\ response.statusCode = 500
       /\ answers = <<>> /\ writes = <<>> /\ tried = <<>>

\* C14: every response of a webhook handler has a status code in
\* {200, 400, 401, 405, 500, 502}, whatever the remote system answered
\* (204 is the answer to OPTIONS of the handlers that serve CORS; the
\* handlers here answer OPTIONS as any other non-POST).
C14_StatusCodes ==
  (hpc = "done") => (response.statusCode \in {200, 400, 401, 405, 500, 502})

\* the place of a stage in the order in which part_001 and part_002 run
StageRank(x) ==
  CASE x = "verify" -> 1 [] x = "parse" -> 2 [] x = "extract" -> 3
    [] x = "compose" -> 4 [] x = "query" -> 5 [] OTHER -> 6

\* C15 (as claimed): the note is never composed before the contact has been
\* resolved, i.e. wherever the composition stage was performed, a directory
\* query came before it and a contact is known.
C15_ComposeAfterResolution ==
  (Handler12 /\ Performed("compose"))
    => /\ contact # NoContact
       /\ \E i, j \in 1..Len(did) : did[j] = "query" /\ did[i] = "compose" /\ j < i

\* C15 (amended): part_001 and part_002 run their stages in the order
\* signature check, parse, extraction, composition, resolution, write; no
\* stage but the directory query runs twice, and the note is written only
\* after every earlier stage has succeeded: the request was a POST whose
\* signature passed, the body parsed, an email was extracted, the note was
\* composed and the directory gave a contact with a CONTACTID.
C15_StageOrder ==
  Handler12 =>
    /\ \A i, j \in 1..Len(did) :
         i < j => \/ StageRank(did[i]) < StageRank(did[j])
                  \/ did[i] = "query" /\ did[j] = "query"
    /\ \A i \in 1..Len(did) : i > 1 /\ did[i] # "query"
         => StageRank(did[i - 1]) = StageRank(did[i]) - 1
    /\ did # <<>> => did[1] = "verify"
    /\ Performed("write")
         => /\ Performed("verify") /\ Performed("parse") /\ Performed("extract")
            /\ Performed("compose") /\ Performed("query")
            /\ event.httpMethod = "POST"
            /\ verifyTdSignature(event) \/ env.ALLOW_UNVERIFIED
            /\ JSONparse(event.body).ok /\ Truthy(customerEmail)
            /\ contact.CONTACTID # 0
            /\ writes # <<>> /\ writes[1].contactNote = note

\* C15 witness: an invocation of part_001 that went through every stage, the
\* directory queried twice, and answered 200
C15_Witness ==
  /\ variant = "part_001" /\ hpc = "done" /\ response.statusCode = 200
  /\ did = <<"verify", "parse", "extract", "compose", "query", "query", "write">>
  /\ contact.CONTACTID # 0

\* the answers given by the note endpoint so far
NoteCalls == {n \in 1..Len(answers) : answers[n].to = "note"}

\* C16: the note endpoint is called at most once in an invocation, whether
\* the write succeeds, is rejected or fails in transport; and it is not
\* called in an invocation that ends in 400, 401, 405, in the 500 of a
\* missing configuration, or in a 200 that reports a skip.
C16_NoRetry ==
  /\ Len(writes) <= 1
  /\ Cardinality(NoteCalls) <= 1
  /\ (hpc = "done" /\ response.statusCode \in {400, 401, 405}) => writes = <<>>
  /\ (hpc = "done" /\ response.statusCode = 500 /\ ~env.AXC_CONFIGURED) => writes = <<>>
  /\ (hpc = "done" /\ response.statusCode = 200
        /\ (response.skipped # "" \/ response.msg # "")) => writes = <<>>

\* C16 witness: part_001 ended 502 after the one write it made was rejected
C16_Witness ==
  /\ variant = "part_001" /\ hpc = "done" /\ response.statusCode = 502
  /\ Len(writes) = 1
  /\ \E n \in NoteCalls : answers[n].a.kind = "resp" /\ ~ResOk(answers[n].a)

\* C17: an invocation of part_001, part_002 or part_003 always comes to a
\* response, even when a directory or note call never completes: in every
\* state the handler has responded or is at a point from which it goes on
\* (the start, a directory query that will be answered, the note write).
C17_AlwaysResponds ==
  (variant \in {"part_001", "part_002", "part_003"})
    => (hpc = "done" \/ hpc \in {"start", "lookup", "write"})

(***************************************************************************)
(* Claims on the resolvers (ResSpec)                                       *)
(***************************************************************************)
\* rec has an email field equal to the target email up to case
MatchesTarget(rec) ==
  \E f \in {"EMAILADDRESS", "EMAILADDRESSALTERNATIVE", "CUSTOMFIELD_PERSONALEMAIL"} :
    rec[f] # "" /\ <<LowerWord(rec[f])>> = toLowerCase(customerEmail.s)

\* a is a candidate list in which exactly one record matches the target
OneMatch(a) ==
  /\ a.kind = "resp" /\ ResOk(a) /\ a.t = "array"
  /\ Cardinality({x \in 1..Len(a.recs) : MatchesTarget(a.recs[x])}) = 1

\* the record of a that matches the target
TheMatch(a) == a.recs[CHOOSE x \in 1..Len(a.recs) : MatchesTarget(a.recs[x])]

LoneStranger(a) ==
  /\ a.kind = "resp" /\ ResOk(a) /\ a.t = "array" /\ BodyLen(a) = 1 /\ Len(a.recs) = 1
  /\ ~isExactEmail(a.recs[1], toLowerCase(customerEmail.s))
  /\ ~isExactEmail(a.recs[1], toLower(customerEmail.s))

\* C19: when the exact-lookup endpoint /api/contacts?emailAddress=, the
\* first query of findContactByEmail (part_001, part_002), returns exactly
\* one candidate and none of its email fields matches the target, the
\* resolver accepts that candidate as the contact.
C19_SingleResultAtExactLookup ==
  /\ (variant = "part_001" /\ answers # <<>> /\ LoneStranger(answers[1].a))
       => contact = answers[1].a.recs[1]
  /\ (variant = "part_002" /\ Len(tried) = 1 /\ tried[1].path = "/api/contacts"
        /\ stage = 2 /\ offset = 0 /\ LoneStranger(res))
       => contact = res.recs[1]

\* the requests made so far for pages of the search by parameter p
PagedUrls(p) ==
  {n \in 1..Len(tried) : tried[n].extra = "displayLength=100" /\ tried[n].param = p}

\* how far findContactByEmail (part_002) has come: it grows with every
\* answer and cannot pass stage 7, offset MaxOffset
Progress2 == stage * (MaxOffset + PageSize) + offset

C20_Bounds ==
  variant = "part_002" =>
    /\ Len(tried) <= 34
    /\ stage \in 1..7
    /\ offset \in {k * PageSize : k \in 0..9}
    /\ \A n \in 1..Len(tried) : tried[n].offset \in {-1} \cup {k * PageSize : k \in 0..9}
    /\ \A p \in {"emailAddress", "q", "search"} :
         /\ Cardinality(PagedUrls(p)) <= 10
         /\ \A n \in PagedUrls(p) :
              tried[n].offset = PageSize * Cardinality({k \in PagedUrls(p) : k < n})

C20_Step ==
  (variant = "part_002" /\ hpc = "lookup") =>
    /\ hpc' = "lookup" => Progress2' > Progress2
    /\ (stage \in 2..4
          /\ (~ResOk(res') \/ res'.t # "array" \/ BodyLen(res') < PageSize))
         => (hpc' # "lookup" \/ (stage' = stage + 1 /\ offset' = 0))

\* C20: findContactByEmail of part_002 comes to an end whatever the remote
\* system answers: every answer moves it forward through a bounded range of
\* stages and offsets; a paged search asks for the offsets 0, 100, ..., 900
\* only, in this order and at most ten times per parameter; it leaves a
\* parameter at once on a failed, non-array, empty or short page; and one
\* resolution makes at most 34 directory requests.
C20_PagingTerminates == []C20_Bounds /\ [][C20_Step]_vars

\* C20 witness: every page of the three paged searches was full and held no
\* match, the fallbacks gave nothing: 34 requests, and the handler answered
C20_Witness ==
  /\ variant = "part_002" /\ hpc = "done" /\ Len(tried) = 34
  /\ response.skipped = "contact not found"
  /\ \A p \in {"emailAddress", "q", "search"} : Cardinality(PagedUrls(p)) = 10

\* a is a list that holds a record matching the resolver's target
HasExact(a, lower) ==
  /\ a.kind = "resp" /\ ResOk(a) /\ a.t = "array"
  /\ \E x \in 1..Len(a.recs) : isExactEmail(a.recs[x], lower)

\* the first record of a, in list order, that matches
FirstExact(a, lower) ==
  a.recs[CHOOSE x \in 1..Len(a.recs) :
           /\ isExactEmail(a.recs[x], lower)
           /\ \A y \in 1..(x - 1) : ~isExactEmail(a.recs[y], lower)]

\* the queries made so far are the first Len(tried) of the fixed order:
\* part_001 direct, search by emailAddress, search; part_002 direct, the
\* pages of emailAddress, of q and of search by ascending offset, fallbacks
InFixedOrder ==
  IF variant = "part_001"
  THEN \A n \in 1..Len(tried) : tried[n] = Url1(n, customerEmail.s)
  ELSE /\ tried # <<>> => tried[1] = Url2(1, 0, customerEmail.s)
       /\ \A n \in 2..Len(tried) :
            LET a == tried[n - 1]
                b == tried[n]
                rank(u) == IF u.path = "/api/contacts" THEN 1
                           ELSE (IF u.extra = "displayLength=100" THEN 1 ELSE 4)
                                + (CASE u.param = "emailAddress" -> 1 [] u.param = "q" -> 2
                                     [] OTHER -> 3)
            IN  \/ rank(a) < rank(b) /\ b.offset \in {-1, 0}
                \/ rank(a) = rank(b) /\ b.offset = a.offset + PageSize

C21_State ==
  /\ InFixedOrder
  \* a match found by part_001 is the first of the first list that held one
  /\ variant = "part_001" =>
       \A n \in 1..Len(answers) :
         HasExact(answers[n].a, toLowerCase(customerEmail.s))
           => /\ n = Len(answers)
              /\ contact = FirstExact(answers[n].a, toLowerCase(customerEmail.s))
  \* while the resolver goes on, nothing has been returned
  /\ hpc = "lookup" => contact = NoContact

C21_Step ==
  \* one request per step, the previous one answered
  /\ Len(tried') <= Len(tried) + 1
  /\ SubSeq(tried', 1, Len(tried)) = tried
  \* once findContactByEmail has returned, no request follows
  /\ hpc # "lookup" => (tried' = tried /\ answers' = answers /\ res' = res)
  \* a page of part_002 that holds a match ends the resolution with the
  \* first match of the page
  /\ (variant = "part_002" /\ hpc = "lookup" /\ stage <= 4
        /\ HasExact(res', toLower(customerEmail.s)))
       => (hpc' # "lookup" /\ contact' = FirstExact(res', toLower(customerEmail.s)))

\* C21: findContactByEmail (part_001, part_002) asks its queries one at a
\* time in the fixed order direct lookup, search by emailAddress, by q, by
\* search, the pages of each by ascending offset; it returns the first
\* matching record of the first answer that holds one, and asks nothing
\* more once it has returned.
C21_FirstMatchWins == []C21_State /\ [][C21_Step]_vars

\* C21 witness: part_002 was given, on a page of the search by q, a list
\* with two matching records and returned the one that stands first
C21_Witness ==
  /\ variant = "part_002" /\ stage = 3 /\ hpc = "write"
  /\ res.recs = <<ROther, RUpper, RExact>> /\ contact = RUpper
  /\ customerEmail.s = <<"a@x.com">>

(***************************************************************************)
(* Claims on the note (Spec)                                               *)
(***************************************************************************)
\* C22: the composed note is never longer than the maximum (60000 characters
\* in the source, NoteMax here), and for a body text longer than the maximum
\* the note has exactly the maximal length (part_001, part_002, part_003).
C22_NoteBounded ==
  (variant \in {"part_001", "part_002", "part_003"} /\ Performed("compose"))
    => /\ Len(note) <= NoteMax
       /\ (event.body = HBLong /\ note # <<>>) => Len(note) = NoteMax

\* C23: in the note of part_001 the header lines and the body text are
\* separated by an empty line: somewhere in the rendered note a line break
\* is followed at once by another.
C23_BlankLineBeforeBody ==
  (variant = "part_001" /\ note # <<>>)
    => \E i \in 1..(Len(note) - 1) : note[i] = "\n" /\ note[i + 1] = "\n"

\* the text that part_001 extracts for the body of the note (lines 256-262)
BodyText1(data) ==
  LET outbound == lastOutboundEmailThread(data)
      html == Or(Prop(outbound, "htmlBody"), Or(Prop(Prop(data, "message"), "htmlBody"),
              Or(Prop(Prop(data, "message"), "body"), JStr(<<>>))))
  IN  StringOf(Or(Prop(outbound, "textBody"), JStr(htmlToText(StringOf(html)))))

\* C24: when the payload yields no body text (nothing but white space is
\* left of its plain-text and HTML fields), the note of part_001 ends in
\* the line "(no body)".
C24_PlaceholderBody ==
  LET payload == JSONparse(event.body)
      data == Or(Prop(payload.val, "data"), payload.val)
  IN  (variant = "part_001" /\ note # <<>> /\ TrimText(BodyText1(data)) = <<>>)
        => /\ note[Len(note)] = "(no body)"
           /\ Len(note) > 1 => note[Len(note) - 1] = "\n"

(***************************************************************************)
(* Claims on extraction (Spec)                                             *)
(***************************************************************************)
\* C25: for every body that parses as JSON, part_001 extracts the email, the
\* thread, the subject and the body and puts the note together without an
\* exception: no reply of status 500 is given between the parsing of the
\* body and the completed note.
C25_ExtractionTotal ==
  (variant = "part_001" /\ JSONparse(event.body).ok /\ Performed("parse")
     /\ response.statusCode = 500)
    => Performed("compose")

\* C26: once the handler of part_001 or part_003 has gone past the no-email
\* skip, the customer email it extracted is a non-empty string without
\* white space at either end.
C26_EmailTrimmedString ==
  (variant \in {"part_001", "part_003"} /\ Performed("extract") /\ Truthy(customerEmail))
    => /\ customerEmail.t = "str"
       /\ customerEmail.s # <<>>
       /\ TrimText(customerEmail.s) = customerEmail.s

\* C27: the customer email that part_001 and part_000 extract is the first
\* non-empty value among contactInfo.email, contact.email, customer.email
\* and conversation.contact.email, in that order, and null when none of the
\* four is there.
C27_EmailPriority ==
  LET payload == JSONparse(event.body)
      data == Or(Prop(payload.val, "data"), payload.val)
      first == Or(Prop(Prop(data, "contactInfo"), "email"),
               Or(Prop(Prop(data, "contact"), "email"),
               Or(Prop(Prop(data, "customer"), "email"),
               Or(Prop(Prop(Prop(data, "conversation"), "contact"), "email"), JNull))))
  IN  (variant \in {"part_001", "part_000"} /\ Performed("extract"))
        => customerEmail = first

\* C28: where the payload holds outbound email threads that all carry a
\* date, the thread whose text goes into the note of part_001 and of
\* part_000 is one with the latest date, whatever its place in the array.
C28_LatestOutbound ==
  LET payload == JSONparse(event.body)
      data == Or(Prop(payload.val, "data"), payload.val)
      threads == ThreadsOf(data)
      hits == {n \in 1..Len(threads) : IsOutboundEmail(threads[n])}
  IN  (/\ variant \in {"part_001", "part_000"}
       /\ note # <<>>
       /\ hits # {}
       /\ \A n \in hits : Stamp(threads[n]) > 0 /\ Prop(threads[n], "textBody").t = "str")
        => \E n \in hits :
             /\ \A k \in hits : Stamp(threads[k]) <= Stamp(threads[n])
             /\ LET text == Prop(threads[n], "textBody").s
                IN  /\ Len(text) <= Len(note)
                    /\ SubSeq(note, Len(note) - Len(text) + 1, Len(note)) = text

(***************************************************************************)
(* Claims on the header's name (SigSpec)                                   *)
(***************************************************************************)
\* the request with its signature header renamed to the lower-case name
LowerNamed(evt) == [evt EXCEPT !.headers.name = "x-td-signature"]

\* what the verifier under test answers for request evt
Accepts(evt) ==
  CASE verifier = "verifyTdSignature" -> verifyTdSignature(evt)
    [] verifier = "hmacOk" -> hmacOk(env.TD_WEBHOOK_SECRET, evt.body, HmacOkHeader(evt))
    [] verifier = "hmacValid" ->
         hmacValid(Prop(JSONparse(evt.body).val, "data"), reqHeader(evt),
                   env.TD_WEBHOOK_SECRET)
    [] OTHER -> verifyThriveDeskSignature(evt, env.TD_WEBHOOK_SECRET).ok

\* C29: the signature header is found under every casing of its name: the
\* verdict on a request whose header name is some casing of x-td-signature
\* is the verdict on the same request with the name in lower case.
C29_HeaderNameAnyCase ==
  (spc = "verified" /\ event.headers.name \in HeaderNames)
    => verdict.ok = Accepts(LowerNamed(event))

(***************************************************************************)
(* netlify/functions/add-contact-note.js: one invocation of its handler    *)
(***************************************************************************)
RECURSIVE pick(_)
\* vals.find(v => typeof v === "string" && v.trim()); undefined when none
pick(vals) ==
  IF vals = <<>> THEN Undefined
  ELSE IF Head(vals).t = "str" /\ TrimText(Head(vals).s) # <<>> THEN Head(vals)
  ELSE pick(Tail(vals))

\* html with its style and script blocks dropped, every tag and &nbsp; made
\* a blank, &amp; made &, trimmed
stripHtml(h) ==
  LET d == DropBlocks(h, 1)
      tags == Tags \cup {"<br>", "<br/>", "</p>", "<style>", "</style>", "<script>",
                         "</script>", "&nbsp;"}
  IN  TrimText([n \in 1..Len(d) |-> IF d[n] \in tags THEN SP
                                    ELSE IF d[n] = "&amp;" THEN "&" ELSE d[n]])

\* lines 76-131: the fields looked for in the shapes ThriveDesk sends
extractFromThriveDesk(payload) ==
  LET data == Prop(payload, "data")
      conv == Prop(payload, "conversation")
      msg == Prop(payload, "message")
      number == Or(Prop(Prop(payload, "ticket"), "number"),
                Or(Prop(Prop(data, "conversation"), "number"), Prop(conv, "number")))
  IN  [email |-> pick(<<Prop(Prop(payload, "contact"), "email"),
                        Prop(Prop(payload, "customer"), "email"),
                        Prop(Prop(data, "contact"), "email"),
                        Prop(Prop(data, "customer"), "email"),
                        Prop(Prop(Prop(data, "conversation"), "customer"), "email"),
                        Prop(Prop(conv, "customer"), "email"),
                        Prop(Prop(conv, "contact"), "email"),
                        Prop(msg, "to_email"),
                        FirstTo(msg)>>),
       contactId |-> Or(Prop(Prop(payload, "contact"), "id"),
                     Or(Prop(Prop(payload, "customer"), "id"),
                     Or(Prop(Prop(data, "contact"), "id"),
                        Prop(Prop(data, "customer"), "id")))),
       subject |-> pick(<<Prop(Prop(payload, "ticket"), "subject"),
                          Prop(conv, "subject"),
                          Prop(Prop(data, "conversation"), "subject"),
                          Prop(msg, "subject")>>),
       htmlBody |-> pick(<<Prop(Prop(payload, "reply"), "body_html"),
                           Prop(msg, "body_html"),
                           Prop(Prop(data, "message"), "body_html"),
                           Prop(Prop(data, "reply"), "body_html"),
                           Prop(payload, "body_html")>>),
       textBody |-> pick(<<Prop(Prop(payload, "reply"), "body_text"),
                           Prop(msg, "body_text"),
                           Prop(Prop(data, "message"), "body_text"),
                           Prop(Prop(data, "reply"), "body_text"),
                           Prop(payload, "body_text")>>),
       agent |-> pick(<<Prop(Prop(payload, "user"), "name"),
                        Prop(Prop(payload, "agent"), "name"),
                        Prop(Prop(data, "user"), "name"),
                        Prop(msg, "agent_name")>>),
       ticketUrl |-> IF Truthy(number)
                     THEN JStr(<<"https://app.thrivedesk.io/inbox/tickets/">>
                               \o StringOf(number))
                     ELSE Undefined]

\* lines 205-212: the fields of the body itself come before those found by
\* extractFromThriveDesk
Fields(body) ==
  LET td == extractFromThriveDesk(body)
  IN  [email |-> pick(<<Prop(body, "email"), td.email>>),
       contactId |-> Or(Prop(body, "contactId"), td.contactId),
       subject |-> pick(<<Prop(body, "subject"), td.subject>>),
       htmlBody |-> pick(<<Prop(body, "htmlBody"), td.htmlBody>>),
       textBody |-> pick(<<Prop(body, "textBody"), td.textBody>>),
       agent |-> pick(<<Prop(body, "agent"), td.agent>>),
       ticketUrl |-> pick(<<Prop(body, "ticketUrl"), td.ticketUrl>>)]

\* lines 134-146
buildNote(f) ==
  LET body == IF Truthy(f.textBody) /\ TrimText(f.textBody.s) # <<>>
              THEN TrimText(f.textBody.s)
              ELSE IF stripHtml(StringOf(Or(f.htmlBody, JStr(<<>>)))) # <<>>
                THEN stripHtml(StringOf(Or(f.htmlBody, JStr(<<>>))))
              ELSE <<"(no body)">>
  IN  JoinLines(<< <<"Email sent from ThriveDesk">>,
                   IF Truthy(f.agent) THEN <<"Agent: ">> \o f.agent.s ELSE <<>>,
                   IF Truthy(f.subject) THEN <<"Subject: ">> \o f.subject.s ELSE <<>>,
                   IF Truthy(f.ticketUrl) THEN <<"Ticket: ">> \o f.ticketUrl.s ELSE <<>>,
                   <<>>,
                   body >>, TRUE)

\* the body as the handler reads it: JSON.parse(event.body || "{}"), {} when
\* that throws (no content type is sent)
BodyObj(evt) ==
  LET p == JSONparse(IF evt.body = <<>> THEN <<"{", "}">> ELSE evt.body)
  IN  IF p.ok THEN p.val ELSE JObj(<<>>)

\* lines 191-195: the value of the first secret header that is there
SecretHeader(evt) ==
  IF evt.headers.name \in {"x-webhook-secret", "X-Webhook-Secret", "x-secret-key",
                           "X-Secret-Key"}
  THEN evt.headers.value ELSE <<>>

\* Number(contactId): the model's texts hold no digits, so only true gives a
\* number that is not 0 or NaN
NumberOf(v) == IF v.t = "true" THEN 1 ELSE 0

\* { statusCode: 404, body: { error, debug } }
NotResolved == Err(404, "Could not resolve contactID")

\* (c.EMAILADDRESS || "").toLowerCase() === email.toLowerCase() || the same
\* on CUSTOMFIELD_PERSONALEMAIL
isExactEmailN(c, lower) ==
  \/ (IF c.EMAILADDRESS = "" THEN <<>> ELSE <<LowerWord(c.EMAILADDRESS)>>) = lower
  \/ (IF c.CUSTOMFIELD_PERSONALEMAIL = "" THEN <<>>
      ELSE <<LowerWord(c.CUSTOMFIELD_PERSONALEMAIL)>>) = lower

\* lines 178-227: from the method check to the first directory query
NStart ==
  /\ variant = "add-contact-note"
  /\ hpc = "start"
  /\ LET body == BodyObj(event)
         f == Fields(body)
     IN  /\ IF event.httpMethod = "OPTIONS" THEN
              Reply([NoResp EXCEPT !.statusCode = 204], <<>>)
            ELSE IF event.httpMethod # "POST" THEN
              Reply(Err(405, "Use POST with JSON"), <<>>)
            ELSE IF ~env.AXC_CONFIGURED THEN
              Reply(Err(500, "Missing env: AXC_BASE_URL, AXC_API_TOKEN, AXC_WS_TOKEN"), <<>>)
            ELSE IF /\ env.TD_WEBHOOK_SECRET # ""
                    /\ SecretHeader(event) # <<Lit(env.TD_WEBHOOK_SECRET)>> THEN
              Reply(Err(401, "Bad webhook secret"), <<"verify">>)
            ELSE IF body.t = "null" THEN
              Crash(<<"verify", "parse">>)
            ELSE IF Truthy(f.contactId) /\ NumberOf(f.contactId) # 0 THEN
              /\ did' = <<"verify", "parse", "extract", "compose">>
              /\ hpc' = "write"
              /\ response' = response
            ELSE IF Truthy(f.contactId) \/ ~Truthy(f.email) THEN
              Reply(NotResolved, <<"verify", "parse", "extract">>)
            ELSE /\ did' = <<"verify", "parse", "extract">>
                 /\ hpc' = "lookup"
                 /\ response' = response
         /\ customerEmail' = IF hpc' \in {"lookup", "write"} THEN f.email ELSE customerEmail
         /\ contact' = IF hpc' = "write"
                       THEN [NoContact EXCEPT !.CONTACTID = NumberOf(f.contactId)]
                       ELSE contact
         /\ note' = IF hpc' = "write" THEN buildNote(f) ELSE note
         /\ stage' = IF hpc' = "lookup" THEN 1 ELSE stage
  /\ UNCHANGED <<env, event, sigvars, other, variant, res, offset, tried, writes, lastFetch, answers>>

\* resolveContactId lines 51-73: the answer to the n-th query, and lines
\* 223-233 of the handler when the resolver has returned
NLookup(n) ==
  /\ variant = "add-contact-note"
  /\ hpc = "lookup"
  /\ stage = n
  /\ \E a \in DirAnswers :
       /\ answers' = Append(answers, [to |-> "directory", a |-> a])
       /\ LET arr == IF a.kind = "resp" /\ a.status = 200 /\ a.t = "array" THEN a.recs
                     ELSE <<>>
              k == FirstOf({x \in 1..Len(arr) :
                              isExactEmailN(arr[x], toLowerCase(customerEmail.s))})
          IN  IF a.kind = "never" THEN
                /\ Hang(Append(did, "query"))
                /\ UNCHANGED <<contact, note, stage>>
              ELSE IF a.kind = "throw" THEN
                /\ Crash(Append(did, "query"))
                /\ UNCHANGED <<contact, note, stage>>
              ELSE IF k # 0 /\ arr[k].CONTACTID # 0 THEN
                /\ contact' = arr[k]
                /\ note' = buildNote(Fields(BodyObj(event)))
                /\ did' = did \o <<"query", "compose">>
                /\ hpc' = "write"
                /\ UNCHANGED <<response, stage>>
              ELSE IF k # 0 \/ n = 2 THEN
                /\ Reply(NotResolved, Append(did, "query"))
                /\ UNCHANGED <<contact, note, stage>>
              ELSE
                /\ did' = Append(did, "query")
                /\ stage' = 2
                /\ UNCHANGED <<hpc, response, contact, note>>
  /\ UNCHANGED <<env, event, sigvars, other, variant, res, offset, customerEmail, tried, writes,
                 lastFetch>>

\* lines 237-261: the answer to the note write
NWrite ==
  /\ variant = "add-contact-note"
  /\ hpc = "write"
  /\ writes' = Append(writes, [method |-> "POST", contactID |-> contact.CONTACTID,
                               contactNote |-> note])
  /\ \E a \in WriteAnswers :
       /\ answers' = Append(answers, [to |-> "note", a |-> a])
       /\ IF a.kind = "never" THEN Hang(Append(did, "write"))
          ELSE IF a.kind = "throw" THEN Crash(Append(did, "write"))
          ELSE IF ResOk(a) THEN
            Reply([NoResp EXCEPT !.statusCode = 200, !.created = "true",
                                 !.contactID = contact.CONTACTID],
                  Append(did, "write"))
          ELSE
            Reply([NoResp EXCEPT !.statusCode = IF a.status # 0 THEN a.status ELSE 502,
                                 !.created = "false",
                                 !.contactID = contact.CONTACTID],
                  Append(did, "write"))
  /\ UNCHANGED <<env, event, sigvars, other, variant, res, offset, customerEmail, note, stage, tried,
                 contact, lastFetch>>

\* {"contactId":true,"email":"a@x.com"}
NBGivenId ==
  <<"{">> \o Member("contactId", <<"true">>) \o <<",">> \o Member("email", Q("a@x.com"))
  \o <<"}">>

\* the secret headers a request may carry
NoteHeaders ==
  {[name |-> "none", value |-> <<>>]}
  \cup {[name |-> n, value |-> <<Lit(k)>>] :
          n \in {"x-webhook-secret", "X-Secret-Key", "x-td-signature"}, k \in Keys}

NoteInit ==
  /\ variant = "add-contact-note"
  /\ env \in Envs
  /\ \E m \in Methods : \E b \in HandlerBodies \cup {NBGivenId} : \E h \in NoteHeaders :
       event = [httpMethod |-> m, headers |-> h, body |-> b]
  /\ hpc = "start"
  /\ did = <<>> /\ customerEmail = Undefined /\ note = <<>> /\ stage = 0
  /\ tried = <<>> /\ contact = NoContact /\ writes = <<>> /\ lastFetch = <<>>
  /\ answers = <<>> /\ response = NoResp /\ res = NoAnswer /\ offset = 0
  /\ other = NoOther
  /\ verifier = "none" /\ spc = "off" /\ verdict = [ok |-> FALSE, mode |-> ""]
  /\ orig = NoOrig

NoteNext ==
  \/ NStart
  \/ NLookup(1)
  \/ NLookup(2)
  \/ NWrite

NoteSpec == NoteInit /\ [][NoteNext]_vars

(***************************************************************************)
(* Claims on the shape of error responses (NoteSpec)                       *)
(***************************************************************************)
\* C30: every response of the handler with a status of 400 or more carries
\* an error field in its body.
C30_ErrorField ==
  (hpc = "done" /\ response.statusCode >= 400) => response.error # ""

(***************************************************************************)
(* PairSpec: two invocations of the handler of part_001 for one delivered  *)
(* event, interleaved at their awaits.  The variables of the handler hold  *)
(* the invocation that runs; other holds the one that is suspended.  The   *)
(* module of part_001 declares constants only (lines 4-12), so nothing but *)
(* the remote system is common to the two.                                 *)
(***************************************************************************)
\* the locals of the invocation that runs
Running ==
  [hpc |-> hpc, did |-> did, customerEmail |-> customerEmail, note |-> note,
   stage |-> stage, tried |-> tried, contact |-> contact, writes |-> writes,
   lastFetch |-> lastFetch, answers |-> answers, response |-> response]

\* the event loop suspends the running invocation and resumes the other
Switch ==
  /\ variant = "part_001"
  /\ other.hpc # "off"
  /\ other' = Running
  /\ hpc' = other.hpc /\ did' = other.did /\ customerEmail' = other.customerEmail
  /\ note' = other.note /\ stage' = other.stage /\ tried' = other.tried
  /\ contact' = other.contact /\ writes' = other.writes /\ lastFetch' = other.lastFetch
  /\ answers' = other.answers /\ response' = other.response
  /\ UNCHANGED <<env, event, sigvars, variant, res, offset>>

\* the answers the remote system gives in PairSpec
PairAnswers ==
  { Answer(200, "array", <<>>), Answer(200, "array", <<RExact>>),
    Answer(200, "object", <<>>), Answer(400, "text", <<>>), Answer(500, "text", <<>>),
    FetchThrows, NeverCompletes }

PairAnswersOnly == \A n \in 1..Len(answers) : answers[n].a \in PairAnswers

PairInit ==
  /\ variant = "part_001"
  /\ env \in {e \in Envs : e.AXC_CONFIGURED /\ e.TD_WEBHOOK_SECRET = "k1" /\ ~e.ALLOW_UNVERIFIED}
  /\ \E b \in {HBScenarioA, HBNoEmail} :
     \E h \in {[name |-> "none", value |-> <<>>],
               [name |-> "x-td-signature",
                value |-> hmacBase64("k1", extractRawDataSubstring(b))]} :
       event = [httpMethod |-> "POST", headers |-> h, body |-> b]
  /\ hpc = "start"
  /\ did = <<>> /\ customerEmail = Undefined /\ note = <<>> /\ stage = 0
  /\ tried = <<>> /\ contact = NoContact /\ writes = <<>> /\ lastFetch = <<>>
  /\ answers = <<>> /\ response = NoResp
  /\ other = Fresh
  /\ res = NoAnswer /\ offset = 0
  /\ verifier = "none" /\ spc = "off" /\ verdict = [ok |-> FALSE, mode |-> ""]
  /\ orig = NoOrig

PairStart == P1Start

PairLookup(n) == P1Lookup(n) /\ PairAnswersOnly'

PairWrite == P1Write /\ PairAnswersOnly'

PairNext ==
  \/ PairStart
  \/ PairLookup(1)
  \/ PairLookup(2)
  \/ PairLookup(3)
  \/ PairWrite
  \/ Switch

PairSpec == PairInit /\ [][PairNext]_vars

(***************************************************************************)
(* Claims on concurrent invocations (PairSpec)                             *)
(***************************************************************************)
\* the invocation ended 200 with the contact it wrote the note to
Wrote(inv) == inv.hpc = "done" /\ inv.response.statusCode = 200 /\ inv.response.contactID # 0

\* the notes the two invocations have sent to the remote system
NotesWritten == writes \o other.writes

\* two invocations that have received the same answers are in the same state
\* and have the same response and the same list of URLs tried; each
\* invocation writes at most once; two that both ended with a note written
\* have written two notes
C31_State ==
  /\ ((hpc = "start") = (other.hpc = "start") /\ answers = other.answers) => Running = other
  /\ \A inv \in {Running, other} :
       /\ Len(inv.writes) <= 1
       /\ Wrote(inv) => Len(inv.writes) = 1
       /\ inv.hpc = "done" => inv.response.tried = (IF inv.response.skipped = "contact not found"
                                                     THEN inv.tried ELSE <<>>)
  /\ (Wrote(Running) /\ Wrote(other)) => Len(NotesWritten) = 2

\* a step of one invocation changes nothing of the other one, and a switch
\* changes nothing of either
C31_Step ==
  \/ other' = other
  \/ other' = Running /\ Running' = other

ProcessedData(b) == Prop(JSONparse(b).val, "data")

\* C32: when verifyTdSignature accepts a request on the HMAC of the raw
\* "data" substring and the body parses, the data the handler goes on to
\* extract from is the value that the verified substring denotes.
C32_VerifiedIsProcessed ==
  (/\ verifier = "verifyTdSignature" /\ spc = "verified" /\ verdict.ok
   /\ env.TD_WEBHOOK_SECRET # ""
   /\ TdHeader(event) = TdC1(env.TD_WEBHOOK_SECRET, event.body)
   /\ JSONparse(event.body).ok)
    => JSONparse(extractRawDataSubstring(event.body)).val = ProcessedData(event.body)

\* C33: for every body that is a JSON object with a top-level member "data"
\* holding an object or an array, extractRawDataSubstring returns the text
\* of that member's value.
C33_TopLevelData ==
  (/\ spc \in {"fresh", "verified"}
   /\ JSONparse(event.body).ok
   /\ ProcessedData(event.body).t \in {"obj", "arr"})
    => /\ extractRawDataSubstring(event.body) # <<>>
       /\ JSONparse(extractRawDataSubstring(event.body)).ok
       /\ JSONparse(extractRawDataSubstring(event.body)).val = ProcessedData(event.body)

\* where the value after the first "data" key starts; 0 when there is no
\* key or no colon after it
ValueStart(s) ==
  LET keyIdx == IndexOfDataKey(s)
      i1 == SkipSpaces(s, SkipToSep(s, keyIdx + 3))
      start == SkipSpaces(s, i1 + 1)
  IN  IF keyIdx = 0 \/ i1 > Len(s) \/ s[i1] # ":" \/ start > Len(s) THEN 0 ELSE start

\* whether the text is inside a string literal once the symbol ch has been
\* read in state p: "out", inside a literal in double or single quotes
\* ("dq", "sq"), or just after a backslash in one ("dqe", "sqe")
LiteralAfter(p, ch) ==
  CASE p = "out" -> (IF ch = QT THEN "dq" ELSE IF ch = SQ THEN "sq" ELSE "out")
    [] p = "dq" -> (IF ch = BS THEN "dqe" ELSE IF ch = QT THEN "out" ELSE "dq")
    [] p = "sq" -> (IF ch = BS THEN "sqe" ELSE IF ch = SQ THEN "out" ELSE "sq")
    [] p = "dqe" -> "dq"
    [] OTHER -> "sq"

RECURSIVE NestingDepth(_, _, _)
\* for the positions from j on, [lit, depth] once the symbol there has been
\* read: the literal state, and the brackets opened less the brackets closed
\* so far, those inside string literals not counted; acc holds the positions
\* before j
NestingDepth(s, j, acc) ==
  IF j > Len(s) THEN acc
  ELSE LET p == IF acc = <<>> THEN [lit |-> "out", depth |-> 0] ELSE acc[Len(acc)]
           d == IF p.lit = "out" /\ s[j] \in {"{", "["} THEN p.depth + 1
                ELSE IF p.lit = "out" /\ s[j] \in {"}", "]"} THEN p.depth - 1
                ELSE p.depth
       IN  NestingDepth(s, j + 1, Append(acc, [lit |-> LiteralAfter(p.lit, s[j]), depth |-> d]))

\* the first position from start at which the nesting depth is back at zero;
\* 0 if none
FirstClosed(s, start) ==
  LET at == NestingDepth(s, start, <<>>)
      ends == {n \in 1..Len(at) : at[n].depth = 0}
  IN  IF ends = {} THEN 0 ELSE start - 1 + CHOOSE n \in ends : \A k \in ends : n <= k

\* C34: on every body received, as sent or with a symbol replaced,
\* extractRawDataSubstring returns the text from the first bracket of
\* the value to the bracket at which the nesting depth is first back at
\* zero, brackets and quotes inside string literals of either quote style
\* (backslash escapes honoured) not counted; it returns null when the value
\* does not start with a bracket or is never closed.
C34_DepthScan ==
  LET s == event.body
      start == ValueStart(s)
      end == IF start # 0 /\ s[start] \in {"{", "["} THEN FirstClosed(s, start) ELSE 0
  IN  (spc \in {"fresh", "tampered"} /\ start # 0) =>
        IF end = 0
        THEN extractRawDataSubstring(s) = <<>>
        ELSE extractRawDataSubstring(s) = SubSeq(s, start, end)

\* C34 witness: a body whose value holds a bracket inside a string literal,
\* for which the function returned the text up to a later bracket
C34_Witness ==
  LET s == event.body
      sp == RawDataSpan(s)
  IN  /\ spc = "tampered"
      /\ sp.ok
      /\ \E i \in (sp.from + 1)..(sp.to - 1) :
           s[i] \in {"{", "}", "[", "]"}
             /\ NestingDepth(s, sp.from, <<>>)[i - sp.from].lit # "out"

(***************************************************************************)
(* Claims on the resolvers of part_000 and part_003 (Spec)                 *)
(***************************************************************************)
\* C35: the contact a resolver returns either matches the email, case
\* ignored, on one of its email fields or is the only record of the
\* response it came from: with several records and no match among them the
\* resolvers of part_000 and part_003 return no contact.
C35_NoArbitraryRecord ==
  (variant \in {"part_000", "part_003"} /\ hpc = "write")
    => \/ isExactEmail(contact, toLowerCase(StringOf(customerEmail)))
       \/ Len(answers[Len(answers)].a.recs) = 1

(***************************************************************************)
(* Claims on the list of tried URLs (ResSpec)                              *)
(***************************************************************************)
\* the number of directory requests issued so far by findContactByEmail
Requests == Cardinality({n \in 1..Len(did) : did[n] = "query"})

\* findContactByEmail has returned to the handler
Returned ==
  hpc = "write" \/ (hpc = "done" /\ response.skipped = "contact not found")

\* the URL of the request findContactByEmail makes in the current state
RequestUrl ==
  IF variant = "part_001" THEN Url1(stage, customerEmail.s)
  ELSE Url2(stage, offset, customerEmail.s)

C36_State ==
  \* every request answered so far has one entry, and no other entry exists
  /\ (hpc = "lookup" \/ Returned) => Len(tried) = Requests
  \* the list returned is not empty, and the answer that reports it shows it
  /\ Returned => tried # <<>>
  /\ (hpc = "done" /\ response.skipped = "contact not found") => response.tried = tried

C36_Step ==
  hpc = "lookup" =>
    \* the request of this step was answered: its URL is appended
    \/ /\ Requests' = Requests + 1
       /\ (hpc' = "lookup" \/ Returned')
       /\ tried' = Append(tried, RequestUrl)
    \* the request was not answered: findContactByEmail returns no list
    \/ /\ Requests' = Requests + 1
       /\ ~(hpc' = "lookup" \/ Returned')
       /\ tried' = tried

\* C36: the list tried that findContactByEmail (part_001, part_002) returns
\* holds exactly the URLs of the directory requests the call issued, in the
\* order of issue and one entry per request; it is never empty when the
\* function returns, and holds no URL of a request that was not made.
C36_TriedIsRequests == []C36_State /\ [][C36_Step]_vars

\* C36 witness: part_002 returned after the direct lookup, two pages of the
\* search by emailAddress and the first page of the search by q
C36_Witness ==
  /\ variant = "part_002" /\ Returned /\ Requests = 4
  /\ tried = <<Url2(1, 0, customerEmail.s), Url2(2, 0, customerEmail.s),
               Url2(2, PageSize, customerEmail.s), Url2(3, 0, customerEmail.s)>>

(***************************************************************************)
(* Claims on the order of the handler's checks (Spec)                      *)
(***************************************************************************)
\* the answer of the note endpoint to the handler's write, NoAnswer when
\* no write was answered
WriteAnswer ==
  IF answers # <<>> /\ answers[Len(answers)].to = "note" THEN answers[Len(answers)].a
  ELSE NoAnswer

\* C37: the handler of part_001 makes its checks in the order method,
\* configuration, missing body, signature, JSON parse, email present, contact
\* found, write answered ok, and its response is that of the first check
\* that fails: 405, 500 "Missing aXcelerate env vars", 400 "Missing body",
\* 401, 400 "Body must be JSON", 200 skipped "no customer email", 200 skipped
\* "contact not found", 502; when an earlier check fails nothing of a later
\* stage is performed.
C37_CheckOrder ==
  (variant = "part_001" /\ hpc = "done") =>
    LET payload == JSONparse(event.body)
        data == IF payload.ok THEN Or(Prop(payload.val, "data"), payload.val) ELSE Undefined
        early == {"Use POST with JSON", "Missing aXcelerate env vars", "Missing body",
                  "Signature check failed", "Body must be JSON"}
    IN  IF event.httpMethod # "POST" THEN
          response = Err(405, "Use POST with JSON") /\ did = <<>>
        ELSE IF ~env.AXC_CONFIGURED THEN
          response = Err(500, "Missing aXcelerate env vars") /\ did = <<>>
        ELSE IF event.body = <<>> THEN
          response = Err(400, "Missing body") /\ did = <<>>
        ELSE IF ~verifyTdSignature(event) /\ ~env.ALLOW_UNVERIFIED THEN
          response = Err(401, "Signature check failed") /\ did = <<"verify">>
        ELSE IF ~payload.ok THEN
          response = Err(400, "Body must be JSON") /\ did = <<"verify", "parse">>
        ELSE IF ~Truthy(pickCustomerEmail(data)) THEN
          /\ response.statusCode = 200 /\ response.skipped = "no customer email"
          /\ did = <<"verify", "parse", "extract">>
        ELSE
          /\ response.error \notin early
          /\ response.skipped # "no customer email"
          /\ response.skipped = "contact not found"
               => (response.statusCode = 200 /\ tried # <<>> /\ writes = <<>>)
          /\ response.statusCode = 502
               => (Len(writes) = 1 /\ WriteAnswer.kind = "resp" /\ ~ResOk(WriteAnswer))
          /\ (response.statusCode = 200 /\ response.skipped = "")
               => (Len(writes) = 1 /\ ResOk(WriteAnswer) /\ response.contactID # 0)
          /\ writes # <<>> => (tried # <<>> /\ HasContactId(contact))

\* C37 witness: a POST with the configuration missing, a body and a
\* signature that does not verify was answered 500 for the configuration
C37_Witness ==
  /\ variant = "part_001" /\ hpc = "done"
  /\ event.httpMethod = "POST" /\ ~env.AXC_CONFIGURED /\ event.body # <<>>
  /\ ~verifyTdSignature(event) /\ ~env.ALLOW_UNVERIFIED
  /\ response = Err(500, "Missing aXcelerate env vars")

\* C38 (as claimed): in the handler of part_002 the composition of the note
\* raises nothing: a POST that passed verification, whose body parsed and
\* gave a customer email, goes on to findContactByEmail, and while no remote
\* call has failed it is not answered 500.
C38_CompositionTotal ==
  (variant = "part_002" /\ hpc \in {"lookup", "write", "done"}
     /\ Performed("extract") /\ Truthy(customerEmail) /\ customerEmail.t = "str"
     /\ ~Performed("query"))
    => (hpc = "lookup" /\ response.statusCode # 500)

=============================================================================
